---- MODULE Spec2Model ----
(***************************************************************************)
(* A model of the went front end: the pull-based lexer                     *)
(* (lang/lexer/lexer.go), the channel lexer (lang/token/lexer.go) and the  *)
(* recursive-descent parser that reads the channel lexer                   *)
(* (lang/parser.go); and, each on its own, the error list                  *)
(* (lang/token/errors.go), the runtime Interpreter (package runtime) and   *)
(* the value types (lang/wenttype.go).                                     *)
(*                                                                         *)
(* A rune is a one-character string, the input a sequence of runes.  Only  *)
(* ASCII input is modelled, so every rune is one byte wide and byte        *)
(* offsets are rune offsets.                                               *)
(***************************************************************************)
EXTENDS Integers, Sequences, FiniteSets, TLC

VARIABLES
    mode,       \* which entry point runs: "Scan", "Next", "Parse", "Lookahead", ...
    variant,    \* side of the merge conflict left in lang/lexer/lexer.go
    Input,      \* Lexer.Input: the string being scanned
    l,          \* the pull-based Lexer
    pc,         \* where the caller of Scan stands: "ready", or the loop Scan spins in
    out,        \* the tokens returned so far by Scan (or received from Next)
    cl,         \* the channel Lexer, owned by the lexing goroutine
    state,      \* the goroutine's next stateFunc, "nil" after the last, "closed" after close
    sendq,      \* the tokens the running stateFunc sends, in order, not yet received
    p,          \* the Parser
    ppc,        \* where Parse stands: in "parse", in "recover", or "returned"
    recovered,  \* the panic recover has recovered, its local e
    ret,        \* the results of Parse, parser and err
    calls,      \* the calls made on the Parser's lookahead: next, peek and backup
    errorList,  \* a token.ErrorList
    expr,       \* the expression handed to the runtime Interpreter
    v,          \* the runtime Interpreter
    val,        \* what evaluate has returned, or the panic it ended in
    w1,         \* a WType value, the receiver of a comparison
    w2,         \* a WType value, the argument of a comparison
    cmp,        \* what the comparisons called so far on w1 and w2 returned
    promptState,\* the prompt of the REPL: LivePrefix, LivePrefixIsEnabled and brackets
    query,      \* the lines of the REPL collected for the next run
    entered,    \* the line last given to the executor of the REPL, and its bracket status
    ran         \* how often runOnce was called, and the query and line of the last call

\* the variables of the error list, of the runtime and of the value types
runtimeVars == <<errorList, expr, v, val, w1, w2, cmp>>

\* the variables of the REPL, and their values when no REPL runs
replVars == <<promptState, query, entered, ran>>

NoPrompt ==
    /\ promptState = [ LivePrefix |-> <<>>, LivePrefixIsEnabled |-> FALSE, brackets |-> <<>> ]
    /\ query = <<>>
    /\ entered = [ in |-> <<>>, status |-> "none" ]
    /\ ran = [ count |-> 0, query |-> <<>>, in |-> <<>> ]

vars == <<mode, variant, Input, l, pc, out, cl, state, sendq, p, ppc, recovered, ret, calls,
          errorList, expr, v, val, w1, w2, cmp, promptState, query, entered, ran>>

(***************************************************************************)
(* Bounds of the model.                                                    *)
(***************************************************************************)
\* the input is a concatenation of at most MaxLen pieces
MaxLen == 3
\* how many more times the caller asks for a token after the end of the stream
MaxExtraCalls == 3
\* how many errors a loop that never ends is followed for
MaxSpinErrors == 2
\* at most MaxCalls calls are made on the lookahead of a Parser
MaxCalls == 6

\* the end-of-input rune (-1 in the source) and the backquote rune, by name
eof == "eof"
backquote == "BQ"

RECURSIVE Concat(_)
Concat(ps) == IF ps = <<>> THEN <<>> ELSE Head(ps) \o Concat(Tail(ps))

(***************************************************************************)
(* Rune classes.                                                           *)
(***************************************************************************)
LowerCase == { "a", "b", "c", "d", "e", "f", "g", "h", "i", "j", "k", "l", "m",
               "n", "o", "p", "q", "r", "s", "t", "u", "v", "w", "x", "y", "z" }
UpperCase == { "A", "B", "C", "D", "E", "F", "G", "H", "I", "J", "K", "L", "M",
               "N", "O", "P", "Q", "R", "S", "T", "U", "V", "W", "X", "Y", "Z" }
Digits == { "0", "1", "2", "3", "4", "5", "6", "7", "8", "9" }

isSpace(r) == r \in { " ", "\t", "\r" }
isDigit(r) == r \in Digits
isLetter(r) == r \in LowerCase \cup UpperCase \cup { "_" }
isEndOfLine(r) == r = "\n"
isAlphaNumeric(r) == r = "_" \/ isLetter(r) \/ isDigit(r)

\* strings.ContainsRune(valid, r): eof (-1) is in no string
ContainsRune(valid, r) == r # eof /\ r \in valid

digitValue(ch) ==
    CASE ch = "0" -> 0 [] ch = "1" -> 1 [] ch = "2" -> 2 [] ch = "3" -> 3
      [] ch = "4" -> 4 [] ch = "5" -> 5 [] ch = "6" -> 6 [] ch = "7" -> 7
      [] ch = "8" -> 8 [] ch = "9" -> 9
      [] ch \in { "a", "A" } -> 10 [] ch \in { "b", "B" } -> 11
      [] ch \in { "c", "C" } -> 12 [] ch \in { "d", "D" } -> 13
      [] ch \in { "e", "E" } -> 14 [] ch \in { "f", "F" } -> 15
      [] OTHER -> 16

\* the keyword table: the words of tokenTypes between keywordBegin and keywordEnd
Keywords ==
    [ w \in { <<"f","u","n","c">>, <<"i","f">>, <<"e","l","s","e">>, <<"e","l","i","f">>,
              <<"f","o","r">>, <<"n","u","l","l">>, <<"f","a","l","s","e">>,
              <<"t","r","u","e">>, <<"w","h","i","l","e">>, <<"r","e","t","u","r","n">>,
              <<"i","n">>, <<"b","r","e","a","k">>, <<"c","o","n","t","i","n","u","e">>,
              <<"v","a","r">> } |->
        CASE w = <<"f","u","n","c">> -> "FUNC"
          [] w = <<"i","f">> -> "IF"
          [] w = <<"e","l","s","e">> -> "ELSE"
          [] w = <<"e","l","i","f">> -> "ELIF"
          [] w = <<"f","o","r">> -> "FOR"
          [] w = <<"n","u","l","l">> -> "NULL"
          [] w = <<"f","a","l","s","e">> -> "FALSE"
          [] w = <<"t","r","u","e">> -> "TRUE"
          [] w = <<"w","h","i","l","e">> -> "WHILE"
          [] w = <<"r","e","t","u","r","n">> -> "RETURN"
          [] w = <<"i","n">> -> "IN"
          [] w = <<"b","r","e","a","k">> -> "BREAK"
          [] w = <<"c","o","n","t","i","n","u","e">> -> "CONT"
          [] w = <<"v","a","r">> -> "VAR" ]

(***************************************************************************)
(* The pull-based lexer, lang/lexer/lexer.go.  An operator takes the Lexer *)
(* (a record of its fields) and gives the Lexer it leaves behind, with     *)
(* what it returns.                                                        *)
(***************************************************************************)
\* New: the Lexer at the beginning of the input, with an error handler installed
New ==
    [ pos |-> 0, start |-> 0, line |-> 1, col |-> 0, prevCol |-> 0, runeWidth |-> 0,
      prevTokTyp |-> "ILLEGAL", bracketStack |-> <<>>, ErrorCount |-> 0, errors |-> <<>> ]

push(rs, r) == Append(rs, r)
pop(rs) == SubSeq(rs, 1, Len(rs) - 1)
top(rs) == rs[Len(rs)]

next(lx) ==
    IF lx.pos >= Len(Input)
    THEN [ l |-> [lx EXCEPT !.runeWidth = 0], r |-> eof ]
    ELSE LET r == Input[lx.pos + 1]
         IN  [ l |-> IF r = "\n"
                     THEN [lx EXCEPT !.runeWidth = 1, !.pos = @ + 1,
                                     !.line = @ + 1, !.col = 1]
                     ELSE [lx EXCEPT !.runeWidth = 1, !.pos = @ + 1,
                                     !.prevCol = lx.col, !.col = @ + 1],
               r |-> r ]

peek(lx) == IF lx.pos >= Len(Input) THEN eof ELSE Input[lx.pos + 1]

backup(lx) ==
    LET q == lx.pos - lx.runeWidth
    IN  [lx EXCEPT !.pos = q, !.col = lx.prevCol,
                   !.line = IF lx.runeWidth = 1 /\ Input[q + 1] = "\n" THEN @ - 1 ELSE @]

\* what Scan hands back: the Lexer, the token, and "" or the loop it never leaves
Returned(lx, tok) == [ l |-> lx, tok |-> tok, spin |-> "" ]
Spinning(lx, where) == [ l |-> lx, tok |-> [Type |-> "none"], spin |-> where ]

nextToken(lx, typ) ==
    Returned([lx EXCEPT !.start = lx.pos, !.prevTokTyp = typ],
             [ Type |-> typ, Value |-> SubSeq(Input, lx.start + 1, lx.pos),
               Pos |-> <<lx.line, lx.col>> ])

ignore(lx) == [lx EXCEPT !.start = lx.pos]

accept(lx, valid) ==
    LET n == next(lx)
    IN  IF ContainsRune(valid, n.r) THEN [ l |-> n.l, ok |-> TRUE ]
        ELSE [ l |-> backup(n.l), ok |-> FALSE ]

\* the handler is called with the current line and column, and the error counted
errorf(lx, msg) ==
    [lx EXCEPT !.ErrorCount = @ + 1,
               !.errors = Append(@, [ Pos |-> <<lx.line, lx.col>>, Msg |-> msg ])]

scan2(lx, runeToScan, typ0, typ1) ==
    IF peek(lx) = runeToScan THEN nextToken(next(lx).l, typ1) ELSE nextToken(lx, typ0)

RECURSIVE skipWhitespace(_)
skipWhitespace(lx) ==
    LET n == next(lx)
    IN  IF isSpace(n.r) THEN skipWhitespace(n.l) ELSE ignore(backup(n.l))

\* the loop of lexQuotedString: at end of input no case matches and nothing changes
RECURSIVE quotedLoop(_, _)
quotedLoop(lx, endQuote) ==
    LET n == next(lx)
    IN  CASE n.r = "\\" ->
               LET m == next(n.l)
               IN  quotedLoop(IF m.r = "\n" \/ m.r = eof
                              THEN errorf(m.l, <<"unterminated quoted string">>)
                              ELSE m.l, endQuote)
          [] n.r = endQuote -> [ l |-> backup(n.l), spin |-> FALSE ]
          [] n.r = eof -> [ l |-> n.l, spin |-> TRUE ]
          [] OTHER -> quotedLoop(n.l, endQuote)

lexQuotedString(lx, endQuote) ==
    LET res == quotedLoop(ignore(lx), endQuote)
    IN  IF res.spin THEN Spinning(res.l, "lexQuotedString")
        ELSE LET t == nextToken(res.l, "STR")
             IN  Returned(ignore(next(t.l).l), t.tok)

\* one pass of lexRawString's loop at end of input: the error is reported again
rawAtEOF(lx, startLine, startCol) ==
    errorf([lx EXCEPT !.line = startLine, !.col = startCol], <<"Unterminated raw string">>)

RECURSIVE rawLoop(_, _, _)
rawLoop(lx, startLine, startCol) ==
    LET n == next(lx)
    IN  CASE n.r = eof -> [ l |-> rawAtEOF(n.l, startLine, startCol), spin |-> TRUE ]
          [] n.r = backquote -> [ l |-> backup(n.l), spin |-> FALSE ]
          [] OTHER -> rawLoop(n.l, startLine, startCol)

lexRawString(lx) ==
    LET res == rawLoop(ignore(lx), lx.line, lx.col)
    IN  IF res.spin THEN Spinning(res.l, "lexRawString")
        ELSE LET t == nextToken(res.l, "STR")
             IN  Returned(ignore(next(t.l).l), t.tok)

RECURSIVE scanSignificand(_, _)
scanSignificand(lx, base) ==
    LET n == next(lx)
    IN  IF digitValue(n.r) < base THEN scanSignificand(n.l, base) ELSE backup(n.l)

\* the FRACTION part that emits FLOAT for a decimal point only
lexFraction_dotOnly(lx, emitTyp) ==
    LET a == accept(lx, { "." })
        l1 == IF a.ok THEN scanSignificand(a.l, 10) ELSE a.l
        b == accept(l1, { "e", "E" })
        c == accept(b.l, { "+", "-" })
        l2 == IF b.ok THEN scanSignificand(c.l, 10) ELSE b.l
    IN  nextToken(l2, IF a.ok THEN "FLOAT" ELSE emitTyp)

\* lexNumber from its FRACTION label on
lexFraction(lx, emitTyp) ==
    LET a == accept(lx, { "." })
        l1 == IF a.ok
              THEN scanSignificand(
                       IF ~ isDigit(peek(a.l))
                       THEN errorf(a.l, <<"Illegal trailing decimal point after number">>)
                       ELSE a.l, 10)
              ELSE a.l
        b == accept(l1, { "e", "E" })
        c == accept(b.l, { "+", "-" })
        l2 == IF b.ok
              THEN IF digitValue(peek(c.l)) < 10
                   THEN scanSignificand(c.l, 10)
                   ELSE errorf(c.l, <<"Illegal floating-point exponent",
                                      SubSeq(Input, c.l.start + 1, c.l.pos)>>)
              ELSE b.l
    IN  nextToken(l2, IF a.ok \/ b.ok THEN "FLOAT" ELSE emitTyp)

lexNumber(lx0) ==
    LET lx == backup(lx0)
        zero == accept(lx, { "0" })
        hex == accept(zero.l, { "x", "X" })
        h == scanSignificand(hex.l, 16)
        o == scanSignificand(hex.l, 8)
        bad == accept(o, { "8", "9" })
        o2 == IF bad.ok
              THEN LET d == scanSignificand(bad.l, 10)
                   IN  errorf(d, <<"illegal octal number", SubSeq(Input, d.start + 1, d.pos)>>)
              ELSE bad.l
    IN  IF peek(lx) = "." THEN lexFraction(lx, "INT")
        ELSE IF zero.ok
        THEN IF hex.ok
             THEN nextToken(IF h.pos - h.start <= 2
                            THEN errorf(h, <<"illegal hexadecimal number",
                                             SubSeq(Input, h.start + 1, h.pos)>>)
                            ELSE h, "INT")
             ELSE IF peek(o2) \in { ".", "e", "E" } THEN lexFraction(o2, "INT")
                  ELSE nextToken(o2, "INT")
        ELSE lexFraction(scanSignificand(zero.l, 10), "INT")

RECURSIVE identifierRun(_)
identifierRun(lx) ==
    LET n == next(lx)
    IN  IF isLetter(n.r) \/ isDigit(n.r) THEN identifierRun(n.l) ELSE backup(n.l)

lexIdentifier(lx0) ==
    LET lx == identifierRun(lx0)
        word == SubSeq(Input, lx.start + 1, lx.pos)
    IN  nextToken(lx, IF word \in DOMAIN Keywords THEN Keywords[word] ELSE "NAME")

\* the token types after which a run of newlines becomes a semicolon
SemicolonAfter ==
    { "NAME", "STR", "INT", "FLOAT", "BREAK", "CONT", "RETURN",
      "RROUND", "RSQUARE", "RCURLY" }
        \cup (IF variant = "HEAD" THEN {} ELSE { "FALSE", "TRUE" })

RECURSIVE newlineRun(_)
newlineRun(lx) == IF peek(lx) = "\n" THEN newlineRun(next(ignore(lx)).l) ELSE lx

\* skipNewlines without its third rule, the closing brackets
skipNewlines_noBrackets(lx0) ==
    LET lx == newlineRun(lx0)
    IN  IF lx.prevTokTyp \in SemicolonAfter \ { "RROUND", "RSQUARE", "RCURLY" }
        THEN [ l |-> lx, insertSemicolon |-> TRUE ]
        ELSE [ l |-> ignore(lx), insertSemicolon |-> FALSE ]

skipNewlines(lx0) ==
    LET lx == newlineRun(lx0)
    IN  IF lx.prevTokTyp \in SemicolonAfter
        THEN [ l |-> lx, insertSemicolon |-> TRUE ]
        ELSE [ l |-> ignore(lx), insertSemicolon |-> FALSE ]

RECURSIVE skipSingleLineComment(_)
skipSingleLineComment(lx) ==
    LET n == next(lx)
    IN  IF n.r = "\n" \/ n.r = eof THEN ignore(n.l) ELSE skipSingleLineComment(n.l)

RECURSIVE multilineLoop(_, _)
multilineLoop(lx, right) ==
    LET n == next(lx)
    IN  IF right = "*" /\ n.r = "/" THEN n.l
        ELSE IF right = eof \/ n.r = eof THEN n.l
        ELSE multilineLoop(n.l, n.r)

skipMultilineComment(lx) ==
    LET n == next(lx) IN ignore(multilineLoop(n.l, n.r))

\* a closing round or square bracket: the opener on top of the stack is popped
\* whether or not it matches
closeBracket(lx, r, opener, typ) ==
    IF lx.bracketStack = <<>>
    THEN nextToken(errorf(lx, <<"unexpected right bracket", r>>), typ)
    ELSE LET toCheck == top(lx.bracketStack)
             popped == [lx EXCEPT !.bracketStack = pop(@)]
         IN  IF toCheck # opener
             THEN nextToken(errorf(popped, <<"unexpected right bracket", r>>), typ)
             ELSE nextToken(popped, typ)

\* the case r == '}' of Scan
closeCurly(lx, r) ==
    IF lx.bracketStack = <<>>
    THEN nextToken(errorf(lx, <<"unexpected right bracket", r>>), "RCURLY")
    ELSE LET toCheck == top(lx.bracketStack)
             popped == [lx EXCEPT !.bracketStack = pop(@)]
         IN  IF toCheck # "{"
             THEN nextToken(errorf(popped, <<"unexpected right bracket", r>>), "RCURLY")
             ELSE IF popped.prevTokTyp # "SEMICOLON"
             THEN nextToken(popped, "SEMICOLON")
             ELSE nextToken(popped, "RCURLY")

\* the cases r == '|' and r == '&' of Scan
logicalOp(lx, r, typ) ==
    nextToken(next(IF peek(lx) # r THEN errorf(lx, <<"Unexpected token", r>>) ELSE lx).l, typ)

\* the runes that open a quoted string on this side of the merge conflict
QuoteRunes == IF variant = "HEAD" THEN { "'" } ELSE { "'", "\"" }

RECURSIVE Scan(_)
Scan(lx0) ==
    LET n == next(skipWhitespace(lx0))
        r == n.r
        lx == n.l
    IN  CASE isLetter(r) -> lexIdentifier(backup(lx))
          [] r \in Digits -> lexNumber(lx)
          [] r = eof ->
               IF lx.bracketStack # <<>>
               THEN nextToken(errorf([lx EXCEPT !.bracketStack = pop(@)],
                                     <<"unclosed left bracket", top(lx.bracketStack)>>), "EOF")
               ELSE nextToken(lx, "EOF")
          [] r = "\n" ->
               LET s == skipNewlines(lx)
               IN  IF s.insertSemicolon THEN nextToken(s.l, "SEMICOLON") ELSE Scan(s.l)
          [] r \in QuoteRunes -> lexQuotedString(lx, r)
          [] r = backquote -> lexRawString(lx)
          [] r = ":" -> nextToken(lx, "COLON")
          [] r = "." -> IF isDigit(peek(lx)) THEN lexNumber(lx) ELSE nextToken(lx, "DOT")
          [] r = "," -> nextToken(lx, "COMMA")
          [] r = ";" -> nextToken(lx, "SEMICOLON")
          [] r = "(" -> nextToken([lx EXCEPT !.bracketStack = push(@, "(")], "LROUND")
          [] r = ")" -> closeBracket(lx, r, "(", "RROUND")
          [] r = "[" -> nextToken([lx EXCEPT !.bracketStack = push(@, "[")], "LSQUARE")
          [] r = "]" -> closeBracket(lx, r, "[", "RSQUARE")
          [] r = "{" -> nextToken([lx EXCEPT !.bracketStack = push(@, "{")], "LCURLY")
          [] r = "}" -> closeCurly(lx, r)
          [] r = "|" -> logicalOp(lx, r, "LOGICALOR")
          [] r = "&" -> logicalOp(lx, r, "LOGICALAND")
          [] r = "+" -> scan2(lx, "=", "PLUS", "PLUSASSIGN")
          [] r = "-" -> scan2(lx, "=", "MINUS", "MINUSASSIGN")
          [] r = "*" -> scan2(lx, "=", "MULT", "MULTASSIGN")
          [] r = "%" -> scan2(lx, "=", "MOD", "MODASSIGN")
          [] r = "=" -> scan2(lx, "=", "ASSIGN", "EQ")
          [] r = "!" -> scan2(lx, "=", "LOGICALNOT", "NEQ")
          [] r = "<" -> scan2(lx, "=", "SM", "SMEQ")
          [] r = ">" -> scan2(lx, "=", "GR", "GREQ")
          [] r = "/" ->
               IF peek(lx) = "/" THEN Scan(skipSingleLineComment(lx))
               ELSE IF peek(lx) = "*" THEN Scan(skipMultilineComment(lx))
               ELSE scan2(lx, "=", "DIV", "DIVASSIGN")
          [] OTHER -> nextToken(errorf(lx, <<"illegal character", r>>), "ILLEGAL")

(***************************************************************************)
(* The caller of the pull-based lexer, as collect does in its test: it     *)
(* calls Scan again and again, here also after the first EOF.              *)
(***************************************************************************)
\* how many tokens of type typ are in the sequence toks
RECURSIVE Count(_, _)
Count(toks, typ) ==
    IF toks = <<>> THEN 0
    ELSE (IF Head(toks).Type = typ THEN 1 ELSE 0) + Count(Tail(toks), typ)

CallScan ==
    /\ mode = "Scan"
    /\ pc = "ready"
    /\ Count(out, "EOF") <= MaxExtraCalls
    /\ LET res == Scan(l)
       IN  /\ l' = res.l
           /\ pc' = IF res.spin = "" THEN "ready" ELSE res.spin
           /\ out' = IF res.spin = "" THEN Append(out, res.tok) ELSE out
    /\ UNCHANGED <<replVars, runtimeVars, calls, mode, variant, Input, cl, state, sendq, p, ppc, recovered, ret>>

\* one more pass of the loop Scan does not leave: lexQuotedString reads eof
\* again and changes nothing, lexRawString reads eof again and reports again
SpinScan ==
    /\ mode = "Scan"
    /\ pc \in { "lexQuotedString", "lexRawString" }
    /\ l.ErrorCount < MaxSpinErrors
    /\ l' = IF pc = "lexRawString"
            THEN rawAtEOF(next(l).l, l.line, l.col)
            ELSE next(l).l
    /\ UNCHANGED <<replVars, runtimeVars, calls, mode, variant, Input, pc, out, cl, state, sendq, p, ppc, recovered, ret>>

(***************************************************************************)
(* The channel lexer, lang/token/lexer.go.  Its operators carry the prefix *)
(* tok_ where the pull-based lexer has one of the same name.  A stateFunc  *)
(* gives the Lexer it leaves behind, the tokens it sent on the channel, in *)
(* order, and the stateFunc it returned.                                   *)
(***************************************************************************)
\* Tokenise: the Lexer before the goroutine runs
Tokenise ==
    [ pos |-> 0, start |-> 0, line |-> 1, col |-> 1, prevCol |-> 1, width |-> 0,
      prevTokTyp |-> "ERROR", bracketStack |-> <<>> ]

\* the zero Token, which a receive from the closed channel gives: Type 0 is ERROR
ZeroToken == [ Type |-> "ERROR", Value |-> <<>>, Pos |-> [ start |-> 0, line |-> 0, col |-> 0 ] ]

tok_next(lx) ==
    IF lx.pos >= Len(Input)
    THEN [ l |-> [lx EXCEPT !.width = 0], r |-> eof ]
    ELSE LET r == Input[lx.pos + 1]
         IN  [ l |-> IF r = "\n"
                     THEN [lx EXCEPT !.width = 1, !.pos = @ + 1, !.line = @ + 1, !.col = 1]
                     ELSE [lx EXCEPT !.width = 1, !.pos = @ + 1,
                                     !.prevCol = lx.col, !.col = @ + 1],
               r |-> r ]

tok_backup(lx) ==
    LET q == lx.pos - lx.width
    IN  [lx EXCEPT !.pos = q, !.col = lx.prevCol,
                   !.line = IF lx.width = 1 /\ Input[q + 1] = "\n" THEN @ - 1 ELSE @]

\* peek is next followed by backup, and leaves width and prevCol as they set them
tok_peek(lx) == LET n == tok_next(lx) IN [ l |-> tok_backup(n.l), r |-> n.r ]

Went(lx, sent, nextState) == [ l |-> lx, sent |-> sent, next |-> nextState ]

TokenAt(lx, typ, value) ==
    [ Type |-> typ, Value |-> value,
      Pos |-> [ start |-> lx.start, line |-> lx.line, col |-> lx.col ] ]

\* emit: the token sent, and the Lexer after it
emit(lx, typ) ==
    [ l |-> [lx EXCEPT !.start = lx.pos, !.prevTokTyp = typ],
      tok |-> TokenAt(lx, typ, SubSeq(Input, lx.start + 1, lx.pos)) ]

\* errorf sends an ERROR token whose value is the message, and returns nil
tok_errorf(lx, msg) == TokenAt(lx, "ERROR", msg)

tok_ignore(lx) == [lx EXCEPT !.start = lx.pos]

tok_accept(lx, valid) ==
    LET n == tok_next(lx)
    IN  IF ContainsRune(valid, n.r) THEN [ l |-> n.l, ok |-> TRUE ]
        ELSE [ l |-> tok_backup(n.l), ok |-> FALSE ]

RECURSIVE acceptRun(_, _)
acceptRun(lx, valid) ==
    LET n == tok_next(lx)
    IN  IF ContainsRune(valid, n.r) THEN acceptRun(n.l, valid) ELSE tok_backup(n.l)

scanNumber(lx) ==
    LET l1 == acceptRun(lx, Digits)
        dot == tok_accept(l1, { "." })
        l2 == IF dot.ok THEN acceptRun(dot.l, Digits) ELSE dot.l
        e == tok_accept(l2, { "e", "E" })
        l3 == IF e.ok THEN tok_accept(tok_accept(e.l, { "+", "-" }).l, Digits).l ELSE e.l
        pk == tok_peek(l3)
    IN  IF isAlphaNumeric(pk.r) THEN [ l |-> tok_next(pk.l).l, ok |-> FALSE ]
        ELSE [ l |-> pk.l, ok |-> TRUE ]

atIdentifierTerminator(lx) ==
    LET pk == tok_peek(lx)
    IN  [ l |-> pk.l,
          ok |-> \/ isSpace(pk.r) \/ isEndOfLine(pk.r)
                 \/ pk.r \in { eof, "=", ".", ",", "|", "&", "(", ")", "[", "]", "{", "}",
                               "+", "-", "/", "*", "%" } ]

\* one token sent, then lexCode again
emitThen(lx, typ) == LET e == emit(lx, typ) IN Went(e.l, <<e.tok>>, "lexCode")

\* the cases r == '|' and r == '&' of lexCode: what errorf returns is dropped
tok_logicalOp(lx, r, typ) ==
    LET n == tok_next(lx)
    IN  IF n.r = r THEN emitThen(n.l, typ)
        ELSE Went(n.l, <<tok_errorf(n.l, <<"expected Token", r>>)>>, "lexCode")

lexCode(lx0) ==
    LET n == tok_next(lx0)
        r == n.r
        lx == n.l
        more == lx.pos < Len(Input)
        ahead == Input[lx.pos + 1]
    IN  CASE r = eof -> Went(lx, <<>>, "lexEOF")
          [] isSpace(r) -> Went(lx, <<>>, "lexSpace")
          [] isEndOfLine(r) -> Went(tok_backup(lx), <<>>, "lexNewline")
          [] r = ":" -> emitThen(lx, "COLON")
          [] r = "," -> emitThen(lx, "COMMA")
          [] r = "|" -> tok_logicalOp(lx, r, "LOGICALOR")
          [] r = "&" -> tok_logicalOp(lx, r, "LOGICALAND")
          [] r = "'" -> Went(tok_ignore(lx), <<>>, "lexQuotedString")
          [] r = backquote -> Went(tok_ignore(lx), <<>>, "lexRawString")
          [] r = "." ->
               IF more /\ ~ isDigit(ahead) THEN emitThen(lx, "DOT")
               ELSE Went(tok_backup(lx), <<>>, "lexNumber")
          [] isDigit(r) -> Went(tok_backup(lx), <<>>, "lexNumber")
          [] r \in { "+", "-", "*", "%", "=", "!", "<", ">" } -> Went(lx, <<>>, "lexOperator")
          [] r = "/" ->
               IF more /\ ahead = "/" THEN Went(lx, <<>>, "lexSinglelineComment")
               ELSE IF more /\ ahead = "*" THEN Went(lx, <<>>, "lexMultilineComment")
               ELSE Went(lx, <<>>, "lexOperator")
          [] isAlphaNumeric(r) /\ ~ isDigit(r) -> Went(tok_backup(lx), <<>>, "lexIdentifier")
          [] r = ";" -> emitThen(lx, "SEMICOLON")
          [] r = "(" -> LET e == emit(lx, "LROUND")
                        IN  Went([e.l EXCEPT !.bracketStack = push(@, r)], <<e.tok>>, "lexCode")
          [] r = "{" -> LET e == emit(lx, "LCURLY")
                        IN  Went([e.l EXCEPT !.bracketStack = push(@, r)], <<e.tok>>, "lexCode")
          [] r = "[" -> LET e == emit(lx, "LSQUARE")
                        IN  Went([e.l EXCEPT !.bracketStack = push(@, r)], <<e.tok>>, "lexCode")
          [] r \in { ")", "}", "]" } -> Went(tok_backup(lx), <<>>, "lexRightBracket")
          [] OTHER ->
               Went(lx, <<tok_errorf(lx, <<"unrecognised character in code", r>>)>>, "nil")

\* lexEOF without the look at the bracket stack
lexEOF_noStackCheck(lx) == LET e == emit(lx, "EOF") IN Went(e.l, <<e.tok>>, "nil")

lexEOF(lx) ==
    IF lx.bracketStack # <<>>
    THEN LET popped == [lx EXCEPT !.bracketStack = pop(@)]
         IN  Went(popped,
                  <<tok_errorf(popped, <<"unclosed left bracket", top(lx.bracketStack)>>)>>,
                  "nil")
    ELSE LET e == emit(lx, "EOF") IN Went(e.l, <<e.tok>>, "nil")

RECURSIVE spaceRun(_)
spaceRun(lx) ==
    LET pk == tok_peek(lx)
    IN  IF isSpace(pk.r) THEN spaceRun(tok_next(pk.l).l) ELSE pk.l

lexSpace(lx) == Went(tok_ignore(spaceRun(lx)), <<>>, "lexCode")

RECURSIVE tok_newlineRun(_)
tok_newlineRun(lx) ==
    LET n == tok_next(lx)
    IN  IF n.r = "\n" THEN tok_newlineRun(n.l) ELSE tok_backup(n.l)

\* lexNewline without FALSE and TRUE among the kinds of its first rule
lexNewline_noBooleans(lx0) ==
    LET lx == tok_newlineRun(lx0)
    IN  IF lx.prevTokTyp \in { "NAME", "RAWSTR", "STR", "NUM", "BREAK",
                               "CONT", "RETURN", "RROUND", "RSQUARE", "RCURLY" }
        THEN emitThen(lx, "SEMICOLON")
        ELSE Went(tok_ignore(lx), <<>>, "lexCode")

lexNewline(lx0) ==
    LET lx == tok_newlineRun(lx0)
    IN  IF lx.prevTokTyp \in { "NAME", "RAWSTR", "STR", "FALSE", "TRUE", "NUM", "BREAK",
                               "CONT", "RETURN", "RROUND", "RSQUARE", "RCURLY" }
        THEN emitThen(lx, "SEMICOLON")
        ELSE Went(tok_ignore(lx), <<>>, "lexCode")

\* the loop of lexQuotedString: "error" after an escape at the end of a line or of
\* the input, "spin" at end of input, where no case matches and nothing changes
RECURSIVE tok_quotedLoop(_)
tok_quotedLoop(lx) ==
    LET n == tok_next(lx)
    IN  CASE n.r = "\\" ->
               LET m == tok_next(n.l)
               IN  IF m.r = "\n" \/ m.r = eof THEN [ l |-> m.l, end |-> "error" ]
                   ELSE tok_quotedLoop(m.l)
          [] n.r = "'" -> [ l |-> tok_backup(n.l), end |-> "quote" ]
          [] n.r = eof -> [ l |-> n.l, end |-> "spin" ]
          [] OTHER -> tok_quotedLoop(n.l)

tok_lexQuotedString(lx) ==
    LET res == tok_quotedLoop(lx)
    IN  CASE res.end = "error" ->
               Went(res.l, <<tok_errorf(res.l, <<"unterminated quoted string">>)>>, "nil")
          [] res.end = "spin" -> Went(res.l, <<>>, "spin")
          [] OTHER ->
               LET e == emit(res.l, "STR")
               IN  Went(tok_ignore(tok_next(e.l).l), <<e.tok>>, "lexCode")

RECURSIVE tok_rawLoop(_)
tok_rawLoop(lx) ==
    LET n == tok_next(lx)
    IN  CASE n.r = eof -> [ l |-> n.l, closed |-> FALSE ]
          [] n.r = backquote -> [ l |-> tok_backup(n.l), closed |-> TRUE ]
          [] OTHER -> tok_rawLoop(n.l)

tok_lexRawString(lx) ==
    LET res == tok_rawLoop(lx)
        back == [res.l EXCEPT !.line = lx.line, !.col = lx.col]
    IN  IF ~ res.closed
        THEN Went(back, <<tok_errorf(back, <<"Unterminated raw string">>)>>, "nil")
        ELSE LET e == emit(res.l, "RAWSTR")
             IN  Went(tok_ignore(tok_next(e.l).l), <<e.tok>>, "lexCode")

\* the token type lexOperator emits for the first character r, alone or before '='
OperatorType(r, withEq) ==
    CASE r = "+" -> IF withEq THEN "PLUSASSIGN" ELSE "PLUS"
      [] r = "-" -> IF withEq THEN "MINUSASSIGN" ELSE "MINUS"
      [] r = "/" -> IF withEq THEN "DIVASSIGN" ELSE "DIV"
      [] r = "%" -> IF withEq THEN "MODASSIGN" ELSE "MOD"
      [] r = "*" -> IF withEq THEN "MULTASSIGN" ELSE "MULT"
      [] r = "=" -> IF withEq THEN "EQ" ELSE "ASSIGN"
      [] r = "!" -> IF withEq THEN "NEQ" ELSE "LOGICALNOT"
      [] r = ">" -> IF withEq THEN "GREQ" ELSE "GR"
      [] r = "<" -> IF withEq THEN "SMEQ" ELSE "SM"
      [] OTHER -> "none"

\* r is read at l.start, which is the operator only if nothing is pending before it
lexOperator(lx) ==
    LET r == Input[lx.start + 1]
        n == tok_next(lx)
        withEq == n.r = "="
        after == IF withEq THEN n.l ELSE tok_backup(n.l)
        typ == OperatorType(r, withEq)
    IN  IF typ = "none" THEN Went(after, <<>>, "lexCode") ELSE emitThen(after, typ)

tok_lexNumber(lx) ==
    LET sc == scanNumber(lx)
    IN  IF ~ sc.ok
        THEN Went(sc.l, <<tok_errorf(sc.l, <<"Bad number syntax",
                                             SubSeq(Input, sc.l.start + 1, sc.l.pos)>>)>>, "nil")
        ELSE emitThen(sc.l, "NUM")

RECURSIVE alphaNumericRun(_)
alphaNumericRun(lx) ==
    LET n == tok_next(lx)
    IN  IF isAlphaNumeric(n.r) THEN alphaNumericRun(n.l)
        ELSE [ l |-> tok_backup(n.l), r |-> n.r ]

tok_lexIdentifier(lx) ==
    LET run == alphaNumericRun(lx)
        word == SubSeq(Input, run.l.start + 1, run.l.pos)
        term == atIdentifierTerminator(run.l)
    IN  IF ~ term.ok
        THEN Went(term.l, <<tok_errorf(term.l, <<"Bad character", run.r>>)>>, "nil")
        ELSE emitThen(term.l, IF word \in DOMAIN Keywords THEN Keywords[word] ELSE "NAME")

bracketMap(r) == CASE r = ")" -> "(" [] r = "]" -> "[" [] r = "}" -> "{"

lexRightBracket(lx0) ==
    LET n == tok_next(lx0)
        r == n.r
        lx == n.l
        popped == [lx EXCEPT !.bracketStack = pop(@)]
        semi == emit(tok_backup(popped), "SEMICOLON")
        curly == emit(tok_next(semi.l).l, "RCURLY")
    IN  IF lx.bracketStack = <<>>
        THEN Went(lx, <<tok_errorf(lx, <<"unexpected right bracket", r>>)>>, "nil")
        ELSE IF top(lx.bracketStack) # bracketMap(r)
        THEN Went(popped, <<tok_errorf(popped, <<"unexpected right bracket", r>>)>>, "nil")
        ELSE CASE r = ")" -> emitThen(popped, "RROUND")
               [] r = "]" -> emitThen(popped, "RSQUARE")
               [] r = "}" ->
                    IF popped.prevTokTyp # "SEMICOLON"
                    THEN Went(curly.l, <<semi.tok, curly.tok>>, "lexCode")
                    ELSE emitThen(popped, "RCURLY")

RECURSIVE lexSinglelineComment(_)
lexSinglelineComment(lx) ==
    LET n == tok_next(lx)
    IN  IF isEndOfLine(n.r) \/ n.r = eof THEN Went(tok_ignore(n.l), <<>>, "lexCode")
        ELSE lexSinglelineComment(n.l)

\* strings.Index(l.Input[l.pos:], "*/") >= 0
ClosedAfter(pos) == \E i \in (pos + 1)..(Len(Input) - 1) : Input[i] = "*" /\ Input[i + 1] = "/"

RECURSIVE tok_multilineLoop(_, _)
tok_multilineLoop(lx, right) ==
    LET n == tok_next(lx)
    IN  IF right = "*" /\ n.r = "/" THEN n.l ELSE tok_multilineLoop(n.l, n.r)

lexMultilineComment(lx) ==
    IF ~ ClosedAfter(lx.pos)
    THEN Went(lx, <<tok_errorf(lx, <<"Multiline comment is not closed">>)>>, "nil")
    ELSE LET n == tok_next(lx)
         IN  Went(tok_ignore(tok_multilineLoop(n.l, n.r)), <<>>, "lexCode")

\* state(l) for the stateFunc named by the variable state
RunStateFunc(name, lx) ==
    CASE name = "lexCode" -> lexCode(lx)
      [] name = "lexEOF" -> lexEOF(lx)
      [] name = "lexSpace" -> lexSpace(lx)
      [] name = "lexNewline" -> lexNewline(lx)
      [] name = "lexQuotedString" -> tok_lexQuotedString(lx)
      [] name = "lexRawString" -> tok_lexRawString(lx)
      [] name = "lexOperator" -> lexOperator(lx)
      [] name = "lexNumber" -> tok_lexNumber(lx)
      [] name = "lexIdentifier" -> tok_lexIdentifier(lx)
      [] name = "lexRightBracket" -> lexRightBracket(lx)
      [] name = "lexSinglelineComment" -> lexSinglelineComment(lx)
      [] name = "lexMultilineComment" -> lexMultilineComment(lx)

StateFuncs ==
    { "lexCode", "lexEOF", "lexSpace", "lexNewline", "lexQuotedString", "lexRawString",
      "lexOperator", "lexNumber", "lexIdentifier", "lexRightBracket",
      "lexSinglelineComment", "lexMultilineComment" }

(***************************************************************************)
(* The lexing goroutine and the channel.  The channel is unbuffered: a     *)
(* send ends when the token is received, so the goroutine runs its next    *)
(* stateFunc only when every token of the last one has been received.      *)
(***************************************************************************)
\* run: state = state(l)
run ==
    /\ mode \in { "Next", "Parse", "Lookahead" }
    /\ state \in StateFuncs
    /\ sendq = <<>>
    /\ LET res == RunStateFunc(state, cl)
       IN  /\ cl' = res.l
           /\ sendq' = res.sent
           /\ state' = res.next
    /\ UNCHANGED <<replVars, runtimeVars, calls, mode, variant, Input, l, pc, out, p, ppc, recovered, ret>>

\* run: close(l.tokens), after the stateFunc that returned nil has sent its tokens
close ==
    /\ mode \in { "Next", "Parse", "Lookahead" }
    /\ state = "nil"
    /\ sendq = <<>>
    /\ state' = "closed"
    /\ UNCHANGED <<replVars, runtimeVars, calls, mode, variant, Input, l, pc, out, cl, sendq, p, ppc, recovered, ret>>

\* lexQuotedString at end of input: one more pass of its loop
SpinRun ==
    /\ mode \in { "Next", "Parse", "Lookahead" }
    /\ state = "spin"
    /\ cl' = tok_next(cl).l
    /\ UNCHANGED <<replVars, runtimeVars, calls, mode, variant, Input, l, pc, out, state, sendq, p, ppc, recovered, ret>>

\* the tokens received from the closed channel, all zero Tokens
ExtraCalls(toks) == Cardinality({ i \in 1..Len(toks) : toks[i] = ZeroToken })

\* Next, called as collect does in the test, here also after EOF or ERROR:
\* it receives what the goroutine sends, or the zero Token once the channel is closed
CallNext ==
    /\ mode = "Next"
    /\ \/ /\ sendq # <<>>
          /\ out' = Append(out, Head(sendq))
          /\ sendq' = Tail(sendq)
       \/ /\ state = "closed"
          /\ ExtraCalls(out) < MaxExtraCalls
          /\ out' = Append(out, ZeroToken)
          /\ sendq' = sendq
    /\ UNCHANGED <<replVars, runtimeVars, calls, mode, variant, Input, l, pc, cl, state, p, ppc, recovered, ret>>

(***************************************************************************)
(* The parser, lang/parser.go.  Its operators carry the prefix p_ where a  *)
(* lexer has one of the same name.  A grammar rule takes the parser as it  *)
(* runs over the tokens received so far and gives the parser it leaves     *)
(* behind, with the node it built.  The run stops where the parser waits   *)
(* for a token that has not been received ("block") or panics ("panic"):   *)
(* a rule whose callee stopped stops there too, and builds no node.        *)
(***************************************************************************)
NilNode == [ kind |-> "nil" ]
NilError == [ Msg |-> <<>> ]

\* initParser: Root is nil, the lookahead list empty, the current token the zero Token
initParser ==
    [ Root |-> NilNode, tokens |-> <<>>, currentToken |-> ZeroToken, tokeniser |-> "lexer" ]

stopParse(pr) == [pr EXCEPT !.tokeniser = "nil"]

\* the parser pr about to run over the received tokens toks
Running(pr, toks) == [ p |-> pr, rest |-> toks, status |-> "run", err |-> NilError ]
Halted(ps) == ps.status # "run"
\* what a grammar rule gives: the parser it leaves, the node, whether the parser stopped
Built(ps, node) == [ ps |-> ps, node |-> node, halted |-> ps.status # "run" ]

\* the nodes of lang/node.go
newBinExpr(left, right, op) == [ kind |-> "BinExpr", op |-> op.Type, left |-> left, right |-> right ]
newUnExpr(operand, op) == [ kind |-> "UnExpr", op |-> op.Type, operand |-> operand ]
newID(value) == [ kind |-> "ID", value |-> value ]
newString(text) == [ kind |-> "Str", value |-> text ]
newNull(text) == [ kind |-> "Null", value |-> text ]
newBool(text, tknTyp) == [ kind |-> "Bool", value |-> tknTyp = "TRUE" ]
newList(elems) == [ kind |-> "List", elements |-> elems ]

\* next that receives from the lexer whatever the lookahead list holds
p_next_pastLookahead(ps) ==
    IF Halted(ps) THEN ps
    ELSE IF ps.rest # <<>>
    THEN [ps EXCEPT !.p.currentToken = Head(ps.rest), !.rest = Tail(@)]
    ELSE [ps EXCEPT !.status = "block"]

\* next: the token is taken from the lookahead list, or else received from the lexer
p_next(ps) ==
    IF Halted(ps) THEN ps
    ELSE IF ps.p.tokens # <<>>
    THEN [ps EXCEPT !.p.currentToken = Head(ps.p.tokens), !.p.tokens = Tail(@)]
    ELSE IF ps.rest # <<>>
    THEN [ps EXCEPT !.p.currentToken = Head(ps.rest), !.rest = Tail(@)]
    ELSE [ps EXCEPT !.status = "block"]

\* peek: the token at the bottom of the lookahead list, received first if the list is empty
p_peek(ps) ==
    IF Halted(ps) THEN ps
    ELSE IF ps.p.tokens # <<>> THEN ps
    ELSE IF ps.rest # <<>>
    THEN [ps EXCEPT !.p.tokens = <<Head(ps.rest)>>, !.rest = Tail(@)]
    ELSE [ps EXCEPT !.status = "block"]

\* the type of the token peek returned
Peeked(ps) == Head(ps.p.tokens).Type

\* errorf that leaves Root as it is
p_errorf_keepsRoot(ps, msg) ==
    [ps EXCEPT !.status = "panic",
               !.err = [ Pos |-> ps.p.currentToken.Pos, Msg |-> msg ]]

\* errorf: Root is set to nil and the error, with the current token's position, panics
p_errorf(ps, msg) ==
    [ps EXCEPT !.p.Root = NilNode,
               !.status = "panic",
               !.err = [ Pos |-> ps.p.currentToken.Pos, Msg |-> msg ]]

unexpected(ps, context, tkn) == p_errorf(ps, <<"unexpected", tkn.Type, context>>)

expect(ps, context, expected) ==
    LET n == p_next(ps)
    IN  IF Halted(n) THEN n
        ELSE IF n.p.currentToken.Type # expected THEN unexpected(n, context, n.p.currentToken)
        ELSE n

expectRange(ps, context, expectedTypes) ==
    LET n == p_next(ps)
    IN  IF Halted(n) THEN n
        ELSE IF n.p.currentToken.Type \in expectedTypes THEN n
        ELSE unexpected(n, context, n.p.currentToken)

RECURSIVE orEval(_), orLoop(_), andEval(_), andLoop(_), notEval(_), comparison(_),
          comparisonLoop(_), smExpr(_), smExprLoop(_), term(_), termLoop(_),
          factor(_), atom(_), exprList(_), exprListLoop(_)

\* newBinExpr(node, right, tkn) once the right operand is parsed: at is the parser
\* after the next() that took the operator
binary(left, at, right) ==
    IF right.halted THEN Built(right.ps, NilNode)
    ELSE Built(right.ps, newBinExpr(left, right.node, at.p.currentToken))

\* newUnExpr(operand, tkn) once the operand is parsed
unary(at, operand) ==
    IF operand.halted THEN Built(operand.ps, NilNode)
    ELSE Built(operand.ps, newUnExpr(operand.node, at.p.currentToken))

\* orEval: andEval ("||" andEval)*; orLoop is its loop, a what is parsed so far
orEval(ps) == orLoop(andEval(ps))

orLoop(a) ==
    IF a.halted THEN a
    ELSE LET pk == p_peek(a.ps)
         IN  IF Halted(pk) THEN Built(pk, NilNode)
             ELSE IF Peeked(pk) = "LOGICALOR"
             THEN orLoop(binary(a.node, p_next(pk), andEval(p_next(pk))))
             ELSE Built(pk, a.node)

\* andEval: the right operand of "&&" is another andEval
andEval(ps) == andLoop(notEval(ps))

andLoop(a) ==
    IF a.halted THEN a
    ELSE LET pk == p_peek(a.ps)
         IN  IF Halted(pk) THEN Built(pk, NilNode)
             ELSE IF Peeked(pk) = "LOGICALAND"
             THEN andLoop(binary(a.node, p_next(pk), andEval(p_next(pk))))
             ELSE Built(pk, a.node)

notEval(ps) ==
    LET pk == p_peek(ps)
    IN  IF Halted(pk) THEN Built(pk, NilNode)
        ELSE IF Peeked(pk) = "LOGICALNOT" THEN unary(p_next(pk), notEval(p_next(pk)))
        ELSE comparison(pk)

comparison(ps) == comparisonLoop(smExpr(ps))

comparisonLoop(a) ==
    IF a.halted THEN a
    ELSE LET pk == p_peek(a.ps)
         IN  IF Halted(pk) THEN Built(pk, NilNode)
             ELSE IF Peeked(pk) \in { "EQ", "NEQ", "SM", "SMEQ", "GR", "GREQ", "IN" }
             THEN comparisonLoop(binary(a.node, p_next(pk), smExpr(p_next(pk))))
             ELSE Built(pk, a.node)

smExpr(ps) == smExprLoop(term(ps))

smExprLoop(a) ==
    IF a.halted THEN a
    ELSE LET pk == p_peek(a.ps)
         IN  IF Halted(pk) THEN Built(pk, NilNode)
             ELSE IF Peeked(pk) \in { "PLUS", "MINUS" }
             THEN smExprLoop(binary(a.node, p_next(pk), term(p_next(pk))))
             ELSE Built(pk, a.node)

term(ps) == termLoop(factor(ps))

termLoop(a) ==
    IF a.halted THEN a
    ELSE LET pk == p_peek(a.ps)
         IN  IF Halted(pk) THEN Built(pk, NilNode)
             ELSE IF Peeked(pk) \in { "MULT", "DIV", "MOD" }
             THEN termLoop(binary(a.node, p_next(pk), factor(p_next(pk))))
             ELSE Built(pk, a.node)

factor(ps) ==
    LET pk == p_peek(ps)
    IN  IF Halted(pk) THEN Built(pk, NilNode)
        ELSE IF Peeked(pk) \in { "PLUS", "MINUS" } THEN unary(p_next(pk), factor(p_next(pk)))
        ELSE atom(pk)

\* atom, after the expression or the list inside brackets: the closing bracket is expected
closing(inner, context, expected, isList) ==
    IF inner.halted THEN inner
    ELSE LET closed == expect(inner.ps, context, expected)
         IN  IF Halted(closed) THEN Built(closed, NilNode)
             ELSE Built(closed, IF isList THEN newList(inner.node) ELSE inner.node)

\* atom: the types expectRange lets through, then the switch on the type; INT and
\* FLOAT pass expectRange and fall to the default of the switch, NUM does not pass
atom(ps) ==
    LET n == expectRange(ps, "atom type check",
                         { "NAME", "INT", "FLOAT", "RAWSTR", "STR", "NULL", "FALSE", "TRUE",
                           "LROUND", "LSQUARE" })
        tkn == n.p.currentToken
    IN  IF Halted(n) THEN Built(n, NilNode)
        ELSE CASE tkn.Type = "NAME" -> Built(n, newID(tkn.Value))
               [] tkn.Type \in { "RAWSTR", "STR" } -> Built(n, newString(tkn.Value))
               [] tkn.Type = "NULL" -> Built(n, newNull(tkn.Value))
               [] tkn.Type \in { "FALSE", "TRUE" } -> Built(n, newBool(tkn.Value, tkn.Type))
               [] tkn.Type = "LROUND" ->
                    closing(orEval(n), "closing brackets, expected ')'", "RROUND", FALSE)
               [] tkn.Type = "LSQUARE" ->
                    closing(exprList(n), "closing square brackets, expected ']'", "RSQUARE",
                            TRUE)
               [] OTHER -> Built(unexpected(n, "atom", tkn), NilNode)

\* exprList: append(elements, p.orEval())
appended(elements, element) ==
    IF element.halted THEN Built(element.ps, NilNode)
    ELSE Built(element.ps, Append(elements, element.node))

\* exprList: orEval ("," orEval)* [","]; its node is the sequence of the elements
exprList(ps) == exprListLoop(appended(<<>>, orEval(ps)))

exprListLoop(a) ==
    IF a.halted THEN a
    ELSE LET pk == p_peek(a.ps)
             pk2 == p_peek(p_next(pk))
         IN  IF Halted(pk) THEN Built(pk, NilNode)
             ELSE IF Peeked(pk) # "COMMA" THEN Built(pk, a.node)
             ELSE IF Halted(pk2) THEN Built(pk2, NilNode)
             ELSE IF Peeked(pk2) # "RSQUARE"
             THEN exprListLoop(appended(a.node, orEval(pk2)))
             ELSE exprListLoop(Built(pk2, a.node))

\* parse, after p.Root = p.orEval(): an optional semicolon, then EOF
afterRoot(root) ==
    IF root.halted THEN root.ps
    ELSE LET pk == p_peek([root.ps EXCEPT !.p.Root = root.node])
         IN  IF Halted(pk) THEN pk
             ELSE expect(IF Peeked(pk) = "SEMICOLON" THEN p_next(pk) ELSE pk,
                         "End of File", "EOF")

\* parse: Root is the expression, then an optional semicolon, then EOF
parse(ps) == afterRoot(orEval(ps))

(***************************************************************************)
(* Parse and the recover it defers.  The parser is deterministic, so where *)
(* it stands after one more token is what parse does on all the tokens     *)
(* received so far.                                                        *)
(***************************************************************************)
\* Parse, where parse has gone as far as res: it waits for the next token, or errorf
\* has panicked and recover runs, or parse is done and Parse returns p, nil
Parsed(res) ==
    CASE res.status = "block" ->
           p' = res.p /\ ppc' = "parse" /\ recovered' = recovered /\ ret' = ret
      [] res.status = "panic" ->
           p' = res.p /\ ppc' = "recover" /\ recovered' = res.err /\ ret' = ret
      [] OTHER ->
           /\ p' = stopParse(res.p)
           /\ ppc' = "returned"
           /\ recovered' = recovered
           /\ ret' = [ parser |-> "p", err |-> NilError ]

\* Parse at a receive of p.tokeniser.Next(): the token, or the zero Token from the
\* closed channel, is received and the parser goes on
Parse ==
    /\ mode = "Parse"
    /\ ppc = "parse"
    /\ sendq # <<>> \/ state = "closed"
    /\ out' = Append(out, IF sendq # <<>> THEN Head(sendq) ELSE ZeroToken)
    /\ sendq' = IF sendq # <<>> THEN Tail(sendq) ELSE sendq
    /\ Parsed(parse(Running(initParser, out')))
    /\ UNCHANGED <<replVars, runtimeVars, calls, mode, variant, Input, l, pc, cl, state>>

\* recover, in Drain: one more token is received and dropped
Drain ==
    /\ mode = "Parse"
    /\ ppc = "recover"
    /\ sendq # <<>>
    /\ sendq' = Tail(sendq)
    /\ UNCHANGED <<replVars, runtimeVars, calls, mode, variant, Input, l, pc, out, cl, state, p, ppc, recovered, ret>>

\* recover without the call of Drain: stopParse and *errp = e at once
recover_noDrain ==
    /\ mode = "Parse"
    /\ ppc = "recover"
    /\ p' = stopParse(p)
    /\ ret' = [ret EXCEPT !.err = recovered]
    /\ ppc' = "returned"
    /\ UNCHANGED <<replVars, runtimeVars, calls, mode, variant, Input, l, pc, out, cl, state, sendq, recovered>>

\* recover, once the channel is closed: Drain is over, then stopParse and *errp = e,
\* and Parse returns with its results as they are, parser still nil
recover ==
    /\ mode = "Parse"
    /\ ppc = "recover"
    /\ state = "closed"
    /\ sendq = <<>>
    /\ p' = stopParse(p)
    /\ ret' = [ret EXCEPT !.err = recovered]
    /\ ppc' = "returned"
    /\ UNCHANGED <<replVars, runtimeVars, calls, mode, variant, Input, l, pc, out, cl, state, sendq, recovered>>

(***************************************************************************)
(* The lookahead of the Parser on its own: next, peek and backup called in *)
(* any order while the lexing goroutine runs.  calls keeps, for each call, *)
(* its arguments, the token it returned, the lookahead list before it and  *)
(* how many tokens had been received from the lexer before it.             *)
(***************************************************************************)
\* what p.tokeniser.Next() receives: the token sent first, the zero Token once closed
Received == IF sendq # <<>> THEN Head(sendq) ELSE ZeroToken
CanReceive == sendq # <<>> \/ state = "closed"

\* the record of a call in calls
Called(op, args, tok) ==
    [ op |-> op, args |-> args, tok |-> tok, buffered |-> p.tokens, received |-> Len(out) ]

\* after a call that received a token if it found the lookahead list empty
Receiving ==
    /\ out' = IF p.tokens = <<>> THEN Append(out, Received) ELSE out
    /\ sendq' = IF p.tokens = <<>> /\ sendq # <<>> THEN Tail(sendq) ELSE sendq

\* a call of next
ParserNext ==
    /\ mode = "Lookahead"
    /\ Len(calls) < MaxCalls
    /\ p.tokens # <<>> \/ CanReceive
    /\ LET res == p_next(Running(p, IF CanReceive THEN <<Received>> ELSE <<>>))
       IN  /\ p' = res.p
           /\ calls' = Append(calls, Called("next", <<>>, res.p.currentToken))
    /\ Receiving
    /\ UNCHANGED <<replVars, runtimeVars, mode, variant, Input, l, pc, cl, state, ppc, recovered, ret>>

\* a call of peek
ParserPeek ==
    /\ mode = "Lookahead"
    /\ Len(calls) < MaxCalls
    /\ p.tokens # <<>> \/ CanReceive
    /\ LET res == p_peek(Running(p, IF CanReceive THEN <<Received>> ELSE <<>>))
       IN  /\ p' = res.p
           /\ calls' = Append(calls, Called("peek", <<>>, Head(res.p.tokens)))
    /\ Receiving
    /\ UNCHANGED <<replVars, runtimeVars, mode, variant, Input, l, pc, cl, state, ppc, recovered, ret>>

\* backup that pushes the tokens on top of the lookahead list
p_backup_onTop(pr, tkns) == [pr EXCEPT !.tokens = @ \o tkns]

\* backup: Unshift puts the tokens, in their order, at the bottom of the lookahead list
p_backup(pr, tkns) == [pr EXCEPT !.tokens = tkns \o @]

\* the tokens the calls of next among cs returned, in order
IsNext(c) == c.op = "next"
NextReturns(cs) == [ i \in 1..Len(SelectSeq(cs, IsNext)) |-> SelectSeq(cs, IsNext)[i].tok ]

\* what is backed up: the token next returned last, or the last two in their order
BackupArgs ==
    LET returned == NextReturns(calls)
    IN  { SubSeq(returned, Len(returned) - n + 1, Len(returned)) :
            n \in { k \in { 1, 2 } : k <= Len(returned) } }

\* a call of backup
ParserBackup ==
    /\ mode = "Lookahead"
    /\ Len(calls) < MaxCalls
    /\ \E tkns \in BackupArgs :
          /\ p' = p_backup(p, tkns)
          /\ calls' = Append(calls, Called("backup", tkns, ZeroToken))
    /\ UNCHANGED <<replVars, runtimeVars, mode, variant, Input, l, pc, out, cl, state, sendq, ppc, recovered, ret>>

(***************************************************************************)
(* Initial states and specifications.                                      *)
(***************************************************************************)
NoLexer == [ pos |-> 0 ]
NoParser == [ Root |-> NilNode ]
NoResults == [ parser |-> "nil", err |-> NilError ]

\* no error list, no interpreter and no values: the front end runs alone
NoValue == [ typ |-> "none" ]
NoRuntime ==
    /\ errorList = <<>>
    /\ expr = NoValue /\ v = NoValue /\ val = NoValue
    /\ w1 = NoValue /\ w2 = NoValue /\ cmp = <<>>

\* the input is any concatenation of at most MaxLen of the pieces
InitInput(pieces) == \E n \in 0..MaxLen : \E ps \in [1..n -> pieces] : Input = Concat(ps)

\* New(name, input, eh), on either side of the merge conflict
InitScan(pieces) ==
    /\ mode = "Scan"
    /\ variant \in { "HEAD", "lox-impl-temp" }
    /\ InitInput(pieces)
    /\ l = New
    /\ pc = "ready"
    /\ out = <<>>
    /\ cl = NoLexer /\ state = "none" /\ sendq = <<>>
    /\ p = NoParser /\ ppc = "none" /\ recovered = NilError /\ ret = NoResults
    /\ calls = <<>>
    /\ NoRuntime
    /\ NoPrompt

\* Tokenise(name, input)
InitNext(pieces) ==
    /\ mode = "Next"
    /\ variant = "none"
    /\ InitInput(pieces)
    /\ l = NoLexer /\ pc = "none"
    /\ out = <<>>
    /\ cl = Tokenise
    /\ state = "lexCode"
    /\ sendq = <<>>
    /\ p = NoParser /\ ppc = "none" /\ recovered = NilError /\ ret = NoResults
    /\ calls = <<>>
    /\ NoRuntime
    /\ NoPrompt

\* Parse(name, input), at its first receive: the results parser and err are nil
InitParse(pieces) ==
    /\ mode = "Parse"
    /\ variant = "none"
    /\ InitInput(pieces)
    /\ l = NoLexer /\ pc = "none"
    /\ out = <<>>
    /\ cl = Tokenise
    /\ state = "lexCode"
    /\ sendq = <<>>
    /\ p = initParser
    /\ ppc = "parse"
    /\ recovered = NilError
    /\ ret = NoResults
    /\ calls = <<>>
    /\ NoRuntime
    /\ NoPrompt

\* a Parser over the lexer of one of the inputs, nothing called yet
InitLookahead(inputs) ==
    /\ mode = "Lookahead"
    /\ variant = "none"
    /\ Input \in inputs
    /\ l = NoLexer /\ pc = "none"
    /\ out = <<>>
    /\ cl = Tokenise
    /\ state = "lexCode"
    /\ sendq = <<>>
    /\ p = initParser
    /\ ppc = "none"
    /\ recovered = NilError
    /\ ret = NoResults
    /\ calls = <<>>
    /\ NoRuntime
    /\ NoPrompt

NextScan == CallScan \/ SpinScan
NextChan == run \/ close \/ SpinRun \/ CallNext
NextParse == run \/ close \/ SpinRun \/ Parse \/ Drain \/ recover

BracketPieces ==
    { <<"x">>, <<";">>, <<"\n">>, <<"(">>, <<")">>, <<"[">>, <<"]">>, <<"{">>, <<"}">>,
      <<"'">>, <<"|">> }

TextPieces ==
    { <<"x">>, <<"1">>, <<" ">>, <<"\n">>, <<"'">>, <<backquote>>, <<"\\">>,
      <<"|">>, <<"&">>, <<"/">>, <<"*">>, <<"+">> }

LexemePieces ==
    { <<"x">>, <<"1">>, <<"1", ".", "5">>, <<"'">>, <<backquote>>,
      <<"b", "r", "e", "a", "k">>, <<"c", "o", "n", "t", "i", "n", "u", "e">>,
      <<"r", "e", "t", "u", "r", "n">>, <<"t", "r", "u", "e">>, <<"f", "a", "l", "s", "e">>,
      <<"(">>, <<")">>, <<"]">>, <<"{">>, <<"}">>, <<"\n">>, <<" ">>, <<"+">> }

\* both lexers on inputs made of brackets
SpecBrackets ==
    (InitScan(BracketPieces) \/ InitNext(BracketPieces)) /\ [][NextScan \/ NextChan]_vars

\* both lexers on inputs made of strings, comments and operators
SpecText ==
    (InitScan(TextPieces) \/ InitNext(TextPieces)) /\ [][NextScan \/ NextChan]_vars

ExpressionPieces ==
    { <<"x">>, <<"1">>, <<"'">>, <<"(">>, <<")">>, <<"[">>, <<"]">>, <<",">>, <<";">>,
      <<"\n">>, <<"+">>, <<"*">>, <<"!">>, <<"=", "=">>, <<"&", "&">>, <<"|", "|">> }

\* Parse on inputs made of the pieces of expressions
SpecParse == InitParse(ExpressionPieces) /\ [][NextParse]_vars

\* the pull-based lexer on inputs made of whole lexemes and newlines
SpecLexemes == InitScan(LexemePieces) /\ [][NextScan]_vars

ChainPieces ==
    { <<"x">>, <<"1">>, <<"'">>, <<"-">>, <<"x", "&", "&">>, <<"x", "|", "|">>,
      <<"x", "=", "=">>, <<"x", "+">>, <<"x", "-">>, <<"x", "*">>, <<"1", "+">>, <<"1", "*">>,
      <<" ", "i", "n", " ">>, <<" ", "!", " ", "i", "n", " ">> }

\* Parse on inputs made of operands and operators, without brackets
SpecChains == InitParse(ChainPieces) /\ [][NextParse]_vars

NumberPieces ==
    { <<"0">>, <<"1">>, <<"7">>, <<"8">>, <<"0", "8", "9">>, <<".">>, <<".", "5">>, <<"e">>,
      <<"E", "+">>, <<"0", "x">>, <<"f">>, <<" ">> }

\* the pull-based lexer on inputs made of the pieces of number literals
SpecNumbers == InitScan(NumberPieces) /\ [][CallScan]_vars

LookaheadInputs == { <<>>, <<"x", "+", "1">>, <<"x", "\n", "x", "*">> }

NextLookahead == run \/ close \/ ParserNext \/ ParserPeek \/ ParserBackup

\* next, peek and backup on the tokens of a few inputs
SpecLookahead == InitLookahead(LookaheadInputs) /\ [][NextLookahead]_vars

(***************************************************************************)
(* What the properties below speak of.                                     *)
(***************************************************************************)
Last(s) == s[Len(s)]

\* the tokens the lexer has produced: returned by Scan, or sent on the channel
Toks == IF mode = "Scan" THEN out ELSE out \o sendq

\* the bracket stack of the lexer that runs
Stack == IF mode = "Scan" THEN l.bracketStack ELSE cl.bracketStack

\* a call of Scan returns in this step, with the token Last(out')
ScanReturns == mode = "Scan" /\ Len(out') = Len(out) + 1

\* line and column, both counted from 1, of the k-th rune of the input
LineOf(k) == 1 + Cardinality({ i \in 1..(k - 1) : Input[i] = "\n" })
ColOf(k) ==
    LET before == { i \in 1..(k - 1) : Input[i] = "\n" }
    IN  k - (IF before = {} THEN 0 ELSE CHOOSE i \in before : \A j \in before : j <= i)

\* the first rune at or after offset pos that is not a space, 0 if there is none
FirstNonSpace(pos) ==
    LET rest == { k \in (pos + 1)..Len(Input) : ~ isSpace(Input[k]) }
    IN  IF rest = {} THEN 0 ELSE CHOOSE k \in rest : \A j \in rest : k <= j

\* the errors the handler was called with, or the ERROR tokens sent, with this message
ErrorsSaying(msg) ==
    IF mode = "Scan"
    THEN Cardinality({ i \in 1..Len(l.errors) : l.errors[i].Msg[1] = msg })
    ELSE Cardinality({ i \in 1..Len(Toks) :
                         /\ Toks[i].Type = "ERROR"
                         /\ Toks[i].Value # <<>>
                         /\ Toks[i].Value[1] = msg })

\* no lexical error so far
NoErrors ==
    IF mode = "Scan" THEN l.ErrorCount = 0
    ELSE \A i \in 1..Len(Toks) : Toks[i].Type # "ERROR"

\* how many times the rune r is in the stack rs
Occurrences(rs, r) == Cardinality({ i \in 1..Len(rs) : rs[i] = r })

(***************************************************************************)
(* C1.  Once the lexer has returned an EOF token, every later call of Scan *)
(* or Next returns an EOF token again and reports no further error.        *)
(***************************************************************************)
C1_EOFIsIdempotent ==
    [][ /\ (mode = "Scan" /\ Count(out, "EOF") > 0)
            => /\ ScanReturns
               /\ Last(out').Type = "EOF"
               /\ l'.ErrorCount = l.ErrorCount
        /\ (mode = "Next" /\ Count(out, "EOF") > 0 /\ out' # out)
            => Last(out').Type = "EOF" ]_vars

(***************************************************************************)
(* C2.  Every call of Scan returns, also on an input with a quoted or raw  *)
(* string that is never closed: Scan is never inside a loop it does not    *)
(* leave.                                                                  *)
(***************************************************************************)
C2_EveryScanReturns == mode = "Scan" => pc = "ready"

(***************************************************************************)
(* C3.  Every `}` that closes an open `{` yields exactly one RCURLY token, *)
(* and every RCURLY token is immediately preceded by a SEMICOLON token:    *)
(* as long as no error is reported, there are as many RCURLY tokens as     *)
(* LCURLY tokens whose `{` has left the bracket stack.                     *)
(***************************************************************************)
C3_MatchedCurlyYieldsRCurly ==
    (mode \in { "Scan", "Next" } /\ NoErrors) =>
        /\ Count(Toks, "RCURLY") = Count(Toks, "LCURLY") - Occurrences(Stack, "{")
        /\ \A i \in 1..Len(Toks) :
               Toks[i].Type = "RCURLY" => (i > 1 /\ Toks[i - 1].Type = "SEMICOLON")

(***************************************************************************)
(* C4.  In the pull-based lexer, a Scan that begins at a run of newlines   *)
(* returns a SEMICOLON made of the newline exactly when the token returned *)
(* before it is of one of the kinds listed; as the claim has it, the kinds *)
(* are NAME, the string and number literals, BREAK, CONTINUE, RETURN and   *)
(* the three closing brackets.                                             *)
(***************************************************************************)
InsertedSemicolon(tok) == tok.Type = "SEMICOLON" /\ tok.Value = <<"\n">>

\* Scan is called where the next rune that is not a space is a newline
AtNewlineRun == FirstNonSpace(l.pos) # 0 /\ Input[FirstNonSpace(l.pos)] = "\n"

PreviousKind == IF out = <<>> THEN "none" ELSE Last(out).Type

ClaimedKinds ==
    { "NAME", "STR", "INT", "FLOAT", "BREAK", "CONT", "RETURN", "RROUND", "RSQUARE", "RCURLY" }

AtEndOfInput ==
    \/ ScanReturns /\ Last(out').Type = "EOF"
    \/ mode = "Next" /\ state = "lexEOF" /\ cl' # cl

C5_OneUnclosedBracketError ==
    [][ AtEndOfInput =>
            ErrorsSaying("unclosed left bracket")' =
                (IF Stack # <<>> \/ ErrorsSaying("unclosed left bracket") > 0 THEN 1 ELSE 0)
      ]_vars

(***************************************************************************)
(* C6.  A closing bracket read when the bracket stack is empty, or when    *)
(* the innermost open bracket is not its opener, causes exactly one        *)
(* "unexpected right bracket" error, and that error carries the line and   *)
(* the column of the closer; a closer that matches causes no error.        *)
(***************************************************************************)
Closers == { ")", "]", "}" }

Premature(stack, r) == stack = <<>> \/ top(stack) # bracketMap(r)

\* Scan returns the token of the closer that is the rune before l'.pos
ScanReadsCloser ==
    /\ ScanReturns
    /\ l'.pos > 0
    /\ Input[l'.pos] \in Closers
    /\ Last(out').Value = <<Input[l'.pos]>>
    /\ Last(out').Type \in { "RROUND", "RSQUARE", "RCURLY", "SEMICOLON" }

C6_UnexpectedRightBracket ==
    [][ /\ ScanReadsCloser =>
              LET k == l'.pos
              IN  IF Premature(l.bracketStack, Input[k])
                  THEN l'.errors =
                           Append(l.errors,
                                  [ Pos |-> <<LineOf(k), ColOf(k)>>,
                                    Msg |-> <<"unexpected right bracket", Input[k]>> ])
                  ELSE l'.errors = l.errors
        /\ (mode = "Next" /\ state = "lexRightBracket" /\ cl' # cl) =>
              LET k == cl.pos + 1
              IN  IF Premature(cl.bracketStack, Input[k])
                  THEN /\ Len(sendq') = 1
                       /\ sendq'[1].Type = "ERROR"
                       /\ sendq'[1].Value = <<"unexpected right bracket", Input[k]>>
                       /\ sendq'[1].Pos.start = k - 1
                       /\ sendq'[1].Pos.line = LineOf(k)
                  ELSE \A i \in 1..Len(sendq') : sendq'[i].Type # "ERROR"
      ]_vars

(***************************************************************************)
(* C7.  At the end of the input with a bracket stack that is not empty the *)
(* lexer reports the unclosed-bracket error naming an unmatched opener and *)
(* still emits an EOF token as the last token of the stream.               *)
(***************************************************************************)
UnclosedError(tok) ==
    tok.Type = "ERROR" /\ tok.Value # <<>> /\ tok.Value[1] = "unclosed left bracket"

C8_LogicalOperatorText ==
    \A i \in 1..Len(Toks) :
        /\ Toks[i].Type = "LOGICALOR" => Toks[i].Value = <<"|", "|">>
        /\ Toks[i].Type = "LOGICALAND" => Toks[i].Value = <<"&", "&">>

(***************************************************************************)
(* C9.  A block comment opened where a token may begin and closed nowhere  *)
(* after is not skipped silently: the call that reads it reports an error. *)
(***************************************************************************)
\* Scan is called where the next rune that is not a space opens a block comment
\* that no */ closes
AtUnclosedComment ==
    LET k == FirstNonSpace(l.pos)
    IN  /\ k # 0 /\ k < Len(Input)
        /\ Input[k] = "/" /\ Input[k + 1] = "*"
        /\ ~ ClosedAfter(k + 1)

C9_UnclosedCommentReported ==
    [][ /\ (ScanReturns /\ AtUnclosedComment) => l'.ErrorCount > l.ErrorCount
        /\ (mode = "Next" /\ state = "lexMultilineComment" /\ cl' # cl
                /\ ~ ClosedAfter(cl.pos + 1)) =>
              (sendq' # <<>> /\ sendq'[1].Type = "ERROR")
      ]_vars

(***************************************************************************)
(* C10.  When parsing hits a syntax violation, Parse returns an error that *)
(* is not nil and no tree: the parser it returns is nil, and the Root of   *)
(* the parser has been set to nil.                                         *)
(***************************************************************************)
\* errorf has panicked: recover holds the panic, or has made it the result err
SyntaxViolation == recovered # NilError

C10_ErrorAndNoTree ==
    /\ (mode = "Parse" /\ SyntaxViolation) => p.Root = NilNode
    /\ (mode = "Parse" /\ SyntaxViolation /\ ppc = "returned") =>
           /\ ret.err # NilError
           /\ ret.err = recovered
           /\ ret.parser = "nil"
    /\ (mode = "Parse" /\ ppc = "returned" /\ ~ SyntaxViolation) =>
           /\ ret.err = NilError
           /\ ret.parser = "p"
           /\ p.Root # NilNode

\* Parse has returned the error of a token after a whole expression, `x x`: Root had
\* the tree of the expression when errorf was called
C10_Witness ==
    /\ mode = "Parse"
    /\ ppc = "returned"
    /\ ret.err # NilError
    /\ ret.err.Msg = <<"unexpected", "NAME", "End of File">>
    /\ ret.parser = "nil"
    /\ p.Root = NilNode

(***************************************************************************)
(* The trees Parse returns.                                                *)
(***************************************************************************)
\* the nodes of the tree under n, n among them
RECURSIVE Subnodes(_)
Subnodes(n) ==
    {n} \cup
    CASE n.kind = "BinExpr" -> Subnodes(n.left) \cup Subnodes(n.right)
      [] n.kind = "UnExpr" -> Subnodes(n.operand)
      [] n.kind = "List" -> UNION { Subnodes(n.elements[i]) : i \in DOMAIN n.elements }
      [] OTHER -> {}

\* the binary level of an operator: "||", "&&", comparison, additive, multiplicative
Level(op) ==
    CASE op = "LOGICALOR" -> 1
      [] op = "LOGICALAND" -> 2
      [] op \in { "EQ", "NEQ", "SM", "SMEQ", "GR", "GREQ", "IN" } -> 3
      [] op \in { "PLUS", "MINUS" } -> 4
      [] op \in { "MULT", "DIV", "MOD" } -> 5
      [] OTHER -> 0

\* Parse has returned the parser with its tree, and no error
ParsedTree == mode = "Parse" /\ ppc = "returned" /\ ret.err = NilError /\ ret.parser = "p"

\* nothing in the input opens a bracket
NoBrackets == \A i \in DOMAIN Input : Input[i] \notin { "(", "[" }

(***************************************************************************)
(* C11.  At every binary level a chain of operators parses to the left:    *)
(* in the tree of an input without brackets, the right operand of a binary *)
(* node is never a binary node of the same level (`a && b && c` is         *)
(* and(and(a, b), c)).                                                     *)
(***************************************************************************)
C11_LeftAssociative ==
    (ParsedTree /\ NoBrackets) =>
        \A n \in Subnodes(p.Root) :
            n.kind = "BinExpr" =>
                ~ (n.right.kind = "BinExpr" /\ Level(n.right.op) = Level(n.op))

(***************************************************************************)
(* C12.  Multiplicative operators bind tighter than additive ones, and     *)
(* unary plus and minus tighter than multiplicative ones: an input         *)
(* `a + b * c` of names and numbers parses to add(a, mul(b, c)) and        *)
(* `-a * b` to mul(minus(a), b); in the tree of an input without brackets  *)
(* no operand of a multiplicative node is an additive node and the operand *)
(* of a unary plus or minus is no binary node.                             *)
(***************************************************************************)
Operands == { "x", "1" }

\* the input is `a + b * c`
SumOfProduct ==
    /\ Len(Input) = 5
    /\ Input[1] \in Operands /\ Input[2] = "+" /\ Input[3] \in Operands
    /\ Input[4] = "*" /\ Input[5] \in Operands

\* the input is `-a * b`
ProductOfMinus ==
    /\ Len(Input) = 4
    /\ Input[1] = "-" /\ Input[2] \in Operands /\ Input[3] = "*" /\ Input[4] \in Operands

\* in a tree, no multiplicative node over an additive one, no unary sign over a binary node
PrecedenceInTree(root) ==
    \A n \in Subnodes(root) :
        /\ (n.kind = "BinExpr" /\ Level(n.op) = 5) =>
               \A c \in { n.left, n.right } : ~ (c.kind = "BinExpr" /\ Level(c.op) = 4)
        /\ (n.kind = "UnExpr" /\ n.op \in { "PLUS", "MINUS" }) => n.operand.kind # "BinExpr"

C12_Precedence ==
    /\ (ParsedTree /\ NoBrackets) => PrecedenceInTree(p.Root)
    /\ (mode = "Parse" /\ ppc = "returned" /\ SumOfProduct) =>
           /\ ParsedTree
           /\ p.Root.kind = "BinExpr" /\ p.Root.op = "PLUS"
           /\ p.Root.left.kind # "BinExpr"
           /\ p.Root.right.kind = "BinExpr" /\ p.Root.right.op = "MULT"
    /\ (mode = "Parse" /\ ppc = "returned" /\ ProductOfMinus) =>
           /\ ParsedTree
           /\ p.Root.kind = "BinExpr" /\ p.Root.op = "MULT"
           /\ p.Root.left.kind = "UnExpr" /\ p.Root.left.op = "MINUS"
           /\ p.Root.left.operand.kind # "BinExpr"

\* the same over names alone, which atom accepts
C12_PrecedenceOfNames ==
    /\ (ParsedTree /\ NoBrackets) => PrecedenceInTree(p.Root)
    /\ (mode = "Parse" /\ ppc = "returned" /\ Input = <<"x", "+", "x", "*", "x">>) =>
           /\ ParsedTree
           /\ p.Root.kind = "BinExpr" /\ p.Root.op = "PLUS"
           /\ p.Root.left.kind # "BinExpr"
           /\ p.Root.right.kind = "BinExpr" /\ p.Root.right.op = "MULT"
    /\ (mode = "Parse" /\ ppc = "returned" /\ Input = <<"-", "x", "*", "x">>) =>
           /\ ParsedTree
           /\ p.Root.kind = "BinExpr" /\ p.Root.op = "MULT"
           /\ p.Root.left.kind = "UnExpr" /\ p.Root.left.op = "MINUS"
           /\ p.Root.left.operand.kind # "BinExpr"

(***************************************************************************)
(* C13.  The parser accepts the empty list literal: Parse of `[]` returns  *)
(* no error and a List node with zero elements.                            *)
(***************************************************************************)
C13_EmptyListAccepted ==
    (mode = "Parse" /\ ppc = "returned" /\ Input = <<"[", "]">>) =>
        /\ ParsedTree
        /\ p.Root = newList(<<>>)

(***************************************************************************)
(* C14.  The comparison level accepts `!` `in` as well as `in`: Parse of   *)
(* `x in x` and of `x ! in x` returns no error and a comparison node with  *)
(* the two names for operands.                                             *)
(***************************************************************************)
MembershipInputs ==
    { <<"x", " ", "i", "n", " ", "x">>, <<"x", " ", "!", " ", "i", "n", " ", "x">> }

C14_NotInAccepted ==
    (mode = "Parse" /\ ppc = "returned" /\ Input \in MembershipInputs) =>
        /\ ParsedTree
        /\ p.Root.kind = "BinExpr"
        /\ Level(p.Root.op) = 3
        /\ p.Root.left = newID(<<"x">>)
        /\ p.Root.right = newID(<<"x">>)

(***************************************************************************)
(* C15.  peek never consumes: a peek or a next that follows a peek returns *)
(* the token the peek returned; and over any calls of next and peek alone, *)
(* next returns the tokens of the lexer in order, each exactly once.       *)
(***************************************************************************)
IsPrefix(a, b) == Len(a) <= Len(b) /\ SubSeq(b, 1, Len(a)) = a

IsBackup(c) == c.op = "backup"

C15_PeekDoesNotConsume ==
    mode = "Lookahead" =>
        /\ \A i \in 1..(Len(calls) - 1) :
               (calls[i].op = "peek" /\ calls[i + 1].op \in { "peek", "next" }) =>
                   calls[i + 1].tok = calls[i].tok
        /\ SelectSeq(calls, IsBackup) = <<>> =>
               /\ IsPrefix(NextReturns(calls), out)
               /\ Len(out) <= Len(NextReturns(calls)) + 1
               /\ Len(out) = Len(NextReturns(calls)) + Len(p.tokens)

\* peek, peek, next, next on `x+1`: both peeks and the first next gave x, the second next +
C15_Witness ==
    /\ mode = "Lookahead"
    /\ Len(calls) >= 4
    /\ calls[1].op = "peek" /\ calls[2].op = "peek"
    /\ calls[3].op = "next" /\ calls[4].op = "next"
    /\ calls[1].tok.Type = "NAME" /\ calls[3].tok = calls[1].tok
    /\ calls[4].tok.Type = "PLUS"

(***************************************************************************)
(* C16.  After backup(t1..tn) the calls of next return t1..tn in order,    *)
(* then the tokens that were in the lookahead list at the backup, then the *)
(* tokens received from the lexer after it.                                *)
(***************************************************************************)
\* the calls after the i-th up to the next backup, or all of them if there is none
UntilNextBackup(i) ==
    LET later == { j \in (i + 1)..Len(calls) : calls[j].op = "backup" }
        end == IF later = {} THEN Len(calls)
               ELSE (CHOOSE j \in later : \A k \in later : j <= k) - 1
    IN  SubSeq(calls, i + 1, end)

C16_BackupOrder ==
    mode = "Lookahead" =>
        \A i \in 1..Len(calls) :
            calls[i].op = "backup" =>
                IsPrefix(NextReturns(UntilNextBackup(i)),
                         calls[i].args \o calls[i].buffered
                             \o SubSeq(out, calls[i].received + 1, Len(out)))

\* next, peek, backup(t1), next, next, next: t1, then the peeked token, then a fresh one
C16_Witness ==
    /\ mode = "Lookahead"
    /\ Len(calls) = 6
    /\ calls[3].op = "backup"
    /\ Len(calls[3].args) = 1 /\ Len(calls[3].buffered) = 1
    /\ calls[3].args # calls[3].buffered
    /\ Len(out) = 3
    /\ NextReturns(UntilNextBackup(3)) =
           calls[3].args \o calls[3].buffered \o SubSeq(out, 3, 3)
    /\ calls[6].tok.Type = "NUM"

(***************************************************************************)
(* C17.  In a literal with a leading 0 not followed by x or X, a digit 8   *)
(* or 9 in the run of digits is reported as "illegal octal number", unless *)
(* the run is followed at once by `.`, `e` or `E`: then no octal error is  *)
(* reported and the literal is scanned as one FLOAT token (`089.5`).       *)
(***************************************************************************)
\* the length of the run of digits the input begins with
DigitRun ==
    LET ends == { k \in 0..Len(Input) : \A j \in 1..k : isDigit(Input[j]) }
    IN  CHOOSE k \in ends : \A j \in ends : j <= k

\* the input begins with a literal with a leading 0 that has an 8 or a 9 in its digits
OctalWithEightOrNine ==
    /\ Len(Input) >= 2
    /\ Input[1] = "0"
    /\ \E j \in 1..DigitRun : Input[j] \in { "8", "9" }

\* the run of digits is followed at once by `.`, `e` or `E`
RunFollowedByFraction == DigitRun < Len(Input) /\ Input[DigitRun + 1] \in { ".", "e", "E" }

C17_OctalErrorUnlessFloat ==
    (mode = "Scan" /\ Len(out) = 1 /\ OctalWithEightOrNine) =>
        IF RunFollowedByFraction
        THEN /\ ErrorsSaying("illegal octal number") = 0
             /\ out[1].Type = "FLOAT"
             /\ Len(out[1].Value) > DigitRun
             /\ IsPrefix(out[1].Value, Input)
        ELSE /\ ErrorsSaying("illegal octal number") = 1
             /\ out[1].Value = SubSeq(Input, 1, DigitRun)

(***************************************************************************)
(* C18.  The number scanner emits FLOAT exactly when it consumed a decimal *)
(* point or an exponent marker as part of the literal, and INT otherwise,  *)
(* for decimal, leading-zero octal and 0x hexadecimal integers alike.      *)
(***************************************************************************)
Has(text, runes) == \E i \in DOMAIN text : text[i] \in runes

\* the literal begins with 0x or 0X, so an e in it is a digit
IsHex(text) == Len(text) >= 2 /\ text[1] = "0" /\ text[2] \in { "x", "X" }

\* the literal has a decimal point or an exponent marker
FloatText(text) == Has(text, { "." }) \/ (~ IsHex(text) /\ Has(text, { "e", "E" }))

C18_FloatIffPointOrExponent ==
    mode = "Scan" =>
        \A i \in DOMAIN out :
            out[i].Type \in { "INT", "FLOAT" } =>
                (out[i].Type = "FLOAT" <=> FloatText(out[i].Value))

\* `1e1`, with an exponent marker and no decimal point, was scanned as one FLOAT
C18_Witness ==
    /\ mode = "Scan"
    /\ \E i \in DOMAIN out : out[i].Type = "FLOAT" /\ out[i].Value = <<"1", "e", "1">>

(***************************************************************************)
(* C19.  The error of a raw string that is not closed before the end of    *)
(* the input carries the line and the column of the opening backquote,     *)
(* not those of the end of the input.                                      *)
(***************************************************************************)
\* the last backquote of the input, which opens the raw string that is never closed
LastBackquote ==
    LET quotes == { i \in DOMAIN Input : Input[i] = backquote }
    IN  CHOOSE k \in quotes : \A j \in quotes : j <= k

UnterminatedRawString(value) == value # <<>> /\ value[1] = "Unterminated raw string"

C19_ErrorAtOpeningBackquote ==
    /\ mode = "Scan" =>
           \A i \in DOMAIN l.errors :
               UnterminatedRawString(l.errors[i].Msg) =>
                   l.errors[i].Pos = <<LineOf(LastBackquote), ColOf(LastBackquote)>>
    /\ mode = "Next" =>
           \A i \in DOMAIN Toks :
               (Toks[i].Type = "ERROR" /\ UnterminatedRawString(Toks[i].Value)) =>
                   Toks[i].Pos.line = LineOf(LastBackquote)

\* the same with the column as the lexers count it: the pull-based lexer is one column
\* ahead after the first line, the channel lexer on every line
C19_ErrorWhereBackquoteWasRead ==
    /\ mode = "Scan" =>
           \A i \in DOMAIN l.errors :
               UnterminatedRawString(l.errors[i].Msg) =>
                   l.errors[i].Pos =
                       <<LineOf(LastBackquote),
                         ColOf(LastBackquote) + (IF LineOf(LastBackquote) > 1 THEN 1 ELSE 0)>>
    /\ mode = "Next" =>
           \A i \in DOMAIN Toks :
               (Toks[i].Type = "ERROR" /\ UnterminatedRawString(Toks[i].Value)) =>
                   /\ Toks[i].Pos.line = LineOf(LastBackquote)
                   /\ Toks[i].Pos.col = ColOf(LastBackquote) + 1

(***************************************************************************)
(* C20.  In the pull-based lexer a lexical error never stops scanning:     *)
(* each error reported counts one in ErrorCount and is one call of the     *)
(* handler, and the call of Scan that reported it returns a token.         *)
(***************************************************************************)
C20_ErrorsDoNotStopScan ==
    [][ mode = "Scan" =>
            /\ l'.ErrorCount - l.ErrorCount = Len(l'.errors) - Len(l.errors)
            /\ l'.ErrorCount >= l.ErrorCount
            /\ l'.ErrorCount > l.ErrorCount => ScanReturns
      ]_vars

\* the same but for the call of Scan that never returns
C20_ErrorsCounted ==
    [][ mode = "Scan" =>
            /\ l'.ErrorCount - l.ErrorCount = Len(l'.errors) - Len(l.errors)
            /\ l'.ErrorCount >= l.ErrorCount
            /\ (l'.ErrorCount > l.ErrorCount /\ pc' = "ready") => ScanReturns
      ]_vars

(***************************************************************************)
(* C21.  When every opening bracket of the input that is outside strings   *)
(* has its closer and the brackets are correctly nested, neither lexer     *)
(* reports a bracket error, and the bracket stack is empty once the EOF    *)
(* token has been produced.                                                *)
(***************************************************************************)
\* the runes of s that are outside quoted strings
RECURSIVE CodeRunes(_, _)
CodeRunes(s, inString) ==
    IF s = <<>> THEN <<>>
    ELSE IF Head(s) = "'" THEN CodeRunes(Tail(s), ~ inString)
    ELSE IF inString THEN CodeRunes(Tail(s), inString)
    ELSE <<Head(s)>> \o CodeRunes(Tail(s), inString)

\* the brackets of s are matched and correctly nested, given the openers met so far
RECURSIVE Nested(_, _)
Nested(s, openers) ==
    IF s = <<>> THEN openers = <<>>
    ELSE IF Head(s) \in { "(", "[", "{" } THEN Nested(Tail(s), <<Head(s)>> \o openers)
    ELSE IF Head(s) \in { ")", "]", "}" }
    THEN /\ openers # <<>>
         /\ Head(openers) = bracketMap(Head(s))
         /\ Nested(Tail(s), Tail(openers))
    ELSE Nested(Tail(s), openers)

BracketsNested == Nested(CodeRunes(Input, FALSE), <<>>)

C21_NestedBracketsNoError ==
    (mode \in { "Scan", "Next" } /\ BracketsNested) =>
        /\ ErrorsSaying("unexpected right bracket") = 0
        /\ ErrorsSaying("unclosed left bracket") = 0
        /\ Count(Toks, "EOF") > 0 => Stack = <<>>

\* `{[]}` and the like: brackets inside brackets, all closed, and the EOF token produced
C21_Witness ==
    /\ BracketsNested
    /\ Len(Stack) = 0
    /\ Count(Toks, "LSQUARE") + Count(Toks, "LROUND") + Count(Toks, "LCURLY") >= 1
    /\ Count(Toks, "EOF") > 0

\* the same on inputs whose code has no `|`: the pull-based lexer makes a lone `|` and
\* the rune after it one token, so that a bracket after `|` is never seen
C21_NestedBracketsNoErrorWithoutBar ==
    (mode \in { "Scan", "Next" } /\ BracketsNested
        /\ \A i \in DOMAIN Input : Input[i] # "|") =>
        /\ ErrorsSaying("unexpected right bracket") = 0
        /\ ErrorsSaying("unclosed left bracket") = 0
        /\ Count(Toks, "EOF") > 0 => Stack = <<>>

(***************************************************************************)
(* The error list (lang/token/errors.go).                                  *)
(***************************************************************************)
\* the variables of the front end, and their values when it does not run
frontVars == <<variant, Input, l, pc, out, cl, state, sendq, p, ppc, recovered, ret, calls>>

NoFrontEnd ==
    /\ variant = "none" /\ Input = <<>>
    /\ l = NoLexer /\ pc = "none" /\ out = <<>>
    /\ cl = NoLexer /\ state = "none" /\ sendq = <<>>
    /\ p = NoParser /\ ppc = "none" /\ recovered = NilError /\ ret = NoResults
    /\ calls = <<>>

\* an error list holds at most MaxErrors errors
MaxErrors == 3

\* the input names and the messages of the errors, in the order of Go's < on strings
StringsInOrder == <<"", "a", "m", "n">>
StringLess(s, t) ==
    \E i, j \in DOMAIN StringsInOrder :
        i < j /\ StringsInOrder[i] = s /\ StringsInOrder[j] = t

\* the errors added: GenericError{Input, Pos, Msg}, Pos being a line and a column
GenericErrors ==
    [ Input : { "", "a" }, Pos : { 1, 2 } \X { 1, 2 }, Msg : { "m", "n" } ]

\* ErrorList.Less, on two errors
Less(x, y) ==
    IF x.Input # y.Input THEN StringLess(x.Input, y.Input)
    ELSE IF x.Pos[1] # y.Pos[1] THEN x.Pos[1] < y.Pos[1]
    ELSE IF x.Pos[2] # y.Pos[2] THEN x.Pos[2] < y.Pos[2]
    ELSE StringLess(x.Msg, y.Msg)

\* sort.Sort(p): the errors in the order of Less
RECURSIVE Sort(_)
Sort(list) ==
    IF list = <<>> THEN <<>>
    ELSE LET k == CHOOSE i \in DOMAIN list : \A j \in DOMAIN list : ~ Less(list[j], list[i])
         IN  <<list[k]>> \o Sort(SubSeq(list, 1, k - 1) \o SubSeq(list, k + 1, Len(list)))

\* the loop of RemoveMultiples over the sorted errors: lastFn is never assigned
RECURSIVE keepFirstPerLine(_, _, _)
keepFirstPerLine(sorted, lastFn, lastLine) ==
    IF sorted = <<>> THEN <<>>
    ELSE LET x == Head(sorted)
             currLine == x.Pos[1]
         IN  IF x.Input # lastFn \/ currLine # lastLine
             THEN <<x>> \o keepFirstPerLine(Tail(sorted), lastFn, currLine)
             ELSE keepFirstPerLine(Tail(sorted), lastFn, lastLine)

RemoveMultiples(list) == keepFirstPerLine(Sort(list), "", 0)

\* p.Add(e)
Add ==
    /\ mode = "Errors"
    /\ Len(errorList) < MaxErrors
    /\ \E x \in GenericErrors : errorList' = Append(errorList, x)
    /\ UNCHANGED <<replVars, mode, frontVars, expr, v, val, w1, w2, cmp>>

\* p.RemoveMultiples()
CallRemoveMultiples ==
    /\ mode = "Errors"
    /\ errorList' = RemoveMultiples(errorList)
    /\ UNCHANGED <<replVars, mode, frontVars, expr, v, val, w1, w2, cmp>>

InitErrors ==
    /\ mode = "Errors"
    /\ NoFrontEnd
    /\ NoPrompt
    /\ errorList = <<>>
    /\ expr = NoValue /\ v = NoValue /\ val = NoValue
    /\ w1 = NoValue /\ w2 = NoValue /\ cmp = <<>>

NextErrors == Add \/ CallRemoveMultiples

\* error lists of up to MaxErrors errors, built with Add and cleaned by RemoveMultiples
SpecErrors == InitErrors /\ [][NextErrors]_vars

(***************************************************************************)
(* C22.  After RemoveMultiples the error list is sorted by position and    *)
(* holds, for each pair of input name and line that occurred in it,        *)
(* exactly one error: the first of that pair in sorted order.  Every other *)
(* error on the same line of the same input is gone.                       *)
(***************************************************************************)
SameLine(x, y) == x.Input = y.Input /\ x.Pos[1] = y.Pos[1]

\* a step of RemoveMultiples: the only step that does not lengthen the list
RemoveMultiplesStep == mode = "Errors" /\ Len(errorList') <= Len(errorList)

OnePerLine(before, after) ==
    /\ \A i, j \in DOMAIN after : i < j => Less(after[i], after[j])
    /\ \A i \in DOMAIN before :
           \E j \in DOMAIN after :
               /\ SameLine(after[j], before[i])
               /\ ~ Less(before[i], after[j])
               /\ \A k \in DOMAIN after : SameLine(after[k], before[i]) => k = j
    /\ \A j \in DOMAIN after : \E i \in DOMAIN before : before[i] = after[j]

C22_OneErrorPerLine ==
    [][ RemoveMultiplesStep => OnePerLine(errorList, errorList') ]_vars

\* the same for the errors of an input without a name
C22_OneErrorPerLineWithoutName ==
    [][ (RemoveMultiplesStep /\ \A i \in DOMAIN errorList : errorList[i].Input = "")
            => OnePerLine(errorList, errorList') ]_vars

(***************************************************************************)
(* The runtime Interpreter (package runtime), a visitor of the expression  *)
(* trees of package ast.                                                   *)
(***************************************************************************)
\* a runtime value, an interface{} that holds nil, a bool, a float64 or a string.  A
\* float64 is the fraction num/den in lowest terms; den = 0 stands for +Inf (num = 1),
\* -Inf (num = -1) and NaN (num = 0).  A string is a sequence of runes.
Value(typ, b, num, den, s) == [ typ |-> typ, b |-> b, num |-> num, den |-> den, s |-> s ]
Nil == Value("nil", FALSE, 0, 1, <<>>)
Bool(b) == Value("bool", b, 0, 1, <<>>)
String(s) == Value("string", FALSE, 0, 1, s)

Abs(i) == IF i < 0 THEN -i ELSE i
Sign(i) == IF i < 0 THEN -1 ELSE IF i > 0 THEN 1 ELSE 0
RECURSIVE Gcd(_, _)
Gcd(a, b) == IF b = 0 THEN a ELSE Gcd(b, a % b)

Float64(num, den) ==
    IF den = 0 THEN Value("float64", FALSE, Sign(num), 0, <<>>)
    ELSE LET g == Gcd(Abs(num), Abs(den))
         IN  Value("float64", FALSE, (Sign(den) * num) \div g, Abs(den) \div g, <<>>)

\* float64 arithmetic and order, as IEEE 754 has them on these values
Add64(x, y) ==
    IF x.den # 0 /\ y.den # 0 THEN Float64(x.num * y.den + y.num * x.den, x.den * y.den)
    ELSE IF x.den = 0 /\ y.den = 0 THEN (IF x.num = y.num THEN x ELSE Float64(0, 0))
    ELSE IF x.den = 0 THEN x ELSE y
Neg64(x) == Float64(-x.num, x.den)
Mul64(x, y) ==
    IF x.den # 0 /\ y.den # 0 THEN Float64(x.num * y.num, x.den * y.den)
    ELSE Float64(Sign(x.num) * Sign(y.num), 0)
Div64(x, y) ==
    IF y.den = 0 THEN (IF x.den = 0 THEN Float64(0, 0) ELSE Float64(0, Sign(y.num) * Sign(y.num)))
    ELSE IF y.num = 0 THEN Float64(Sign(x.num), 0)
    ELSE Mul64(x, Float64(y.den, y.num))
Less64(x, y, orEq) ==
    LET nan(z) == z.den = 0 /\ z.num = 0
        rank(z) == IF z.den = 0 THEN z.num ELSE 0
    IN  IF nan(x) \/ nan(y) THEN FALSE
        ELSE IF x.den # 0 /\ y.den # 0
        THEN (IF orEq THEN x.num * y.den <= y.num * x.den ELSE x.num * y.den < y.num * x.den)
        ELSE rank(x) < rank(y) \/ (orEq /\ x = y)

\* the nodes of package ast
BasicLit(typ, value) == [ kind |-> "BasicLit", Typ |-> typ, Value |-> value ]
BinExpr(left, op, right) == [ kind |-> "BinExpr", Left |-> left, Op |-> op, Right |-> right ]
UnExpr(op, operand) == [ kind |-> "UnExpr", Op |-> op, Operand |-> operand ]
GrpExpr(expression) == [ kind |-> "GrpExpr", Expression |-> expression ]

\* what a call of evaluate ends in: a value returned, or a panic with the error that
\* errorf has just added to v.errors
Evaluated(value, errors) == [ panicked |-> FALSE, value |-> value, errors |-> errors ]
Panicked(errors, message) ==
    [ panicked |-> TRUE, value |-> Nil, errors |-> Append(errors, message) ]

isTruthy(value) ==
    IF value.typ = "nil" THEN FALSE
    ELSE IF value.typ = "bool" THEN value.b
    ELSE TRUE

\* a == b on two interface values: NaN is not equal to itself
isEqual(a, b) == a = b /\ ~ (a.typ = "float64" /\ a.den = 0 /\ a.num = 0)

\* checkFloatOperands: the message of the error it adds, "" when every operand is a float64
checkFloatOperands(operandVals) ==
    IF \A i \in DOMAIN operandVals : operandVals[i].typ = "float64" THEN ""
    ELSE IF Len(operandVals) <= 1 THEN "operand must be a number"
    ELSE "operands must be numbers"

\* VisitBinExpr, once both operands are evaluated
VisitBinExpr(op, left, right, errors) ==
    LET message == checkFloatOperands(<<left, right>>)
    IN  CASE op = "PLUS" ->
                IF left.typ = "float64" /\ right.typ = "float64"
                THEN Evaluated(Add64(left, right), errors)
                ELSE IF left.typ = "string" /\ right.typ = "string"
                THEN Evaluated(String(left.s \o right.s), errors)
                ELSE Panicked(errors, "operands must be two numbers or two strings")
          [] op \in { "MINUS", "DIV", "MULT", "GR", "GREQ", "SM", "SMEQ" } ->
                IF message # "" THEN Panicked(errors, message)
                ELSE (CASE op = "MINUS" -> Evaluated(Add64(left, Neg64(right)), errors)
                        [] op = "DIV" -> Evaluated(Div64(left, right), errors)
                        [] op = "MULT" -> Evaluated(Mul64(left, right), errors)
                        [] op = "GR" -> Evaluated(Bool(Less64(right, left, FALSE)), errors)
                        [] op = "GREQ" -> Evaluated(Bool(Less64(right, left, TRUE)), errors)
                        [] op = "SM" -> Evaluated(Bool(Less64(left, right, FALSE)), errors)
                        [] op = "SMEQ" -> Evaluated(Bool(Less64(left, right, TRUE)), errors))
          [] op = "EQ" -> Evaluated(Bool(isEqual(left, right)), errors)
          [] op = "NEQ" -> Evaluated(Bool(~ isEqual(left, right)), errors)
          [] OTHER -> Evaluated(Nil, errors)

\* VisitUnExpr, once the operand is evaluated
VisitUnExpr(op, operandVal, errors) ==
    LET message == checkFloatOperands(<<operandVal>>)
    IN  CASE op = "MINUS" ->
                IF message # "" THEN Panicked(errors, message)
                ELSE Evaluated(Neg64(operandVal), errors)
          [] op = "PLUS" ->
                IF message # "" THEN Panicked(errors, message)
                ELSE Evaluated(operandVal, errors)
          [] op = "LOGICALNOT" -> Evaluated(Bool(~ isTruthy(operandVal)), errors)
          [] OTHER -> Evaluated(Nil, errors)

\* v.evaluate(expr), that is expr.Accept(v), with v.errors as it stands
RECURSIVE evaluate(_, _)
evaluate(n, errors) ==
    CASE n.kind = "BasicLit" -> Evaluated(n.Value, errors)
      [] n.kind = "GrpExpr" -> evaluate(n.Expression, errors)
      [] n.kind = "UnExpr" ->
            LET operandVal == evaluate(n.Operand, errors)
            IN  IF operandVal.panicked THEN operandVal
                ELSE VisitUnExpr(n.Op, operandVal.value, operandVal.errors)
      [] n.kind = "BinExpr" ->
            LET left == evaluate(n.Left, errors)
            IN  IF left.panicked THEN left
                ELSE LET right == evaluate(n.Right, left.errors)
                     IN  IF right.panicked THEN right
                         ELSE VisitBinExpr(n.Op, left.value, right.value, right.errors)

\* the literals: null, the booleans, whole numbers written as INT, numbers written as
\* FLOAT, the empty string and a string of one rune
IntLits == { BasicLit("INT", Float64(i, 1)) : i \in { 0, 2, 5, 7 } }
FloatLits == { BasicLit("FLOAT", Float64(0, 1)), BasicLit("FLOAT", Float64(5, 1)),
               BasicLit("FLOAT", Float64(1, 2)) }
Lits ==
    { BasicLit("NULL", Nil), BasicLit("FALSE", Bool(FALSE)), BasicLit("TRUE", Bool(TRUE)),
      BasicLit("STR", String(<<>>)), BasicLit("STR", String(<<"a">>)) }
        \cup IntLits \cup FloatLits

BinOps == { "PLUS", "MINUS", "MULT", "DIV", "MOD", "GR", "GREQ", "SM", "SMEQ", "EQ", "NEQ",
            "LOGICALAND", "LOGICALOR" }
UnOps == { "MINUS", "PLUS", "LOGICALNOT" }

\* an operation on literals, and a logical operation whose right operand is one
Arithmetic == { BinExpr(a, op, b) : a \in Lits, op \in { "PLUS", "DIV" }, b \in Lits }
Exprs ==
    Lits
        \cup { GrpExpr(a) : a \in Lits }
        \cup { UnExpr(op, a) : op \in UnOps, a \in Lits }
        \cup { BinExpr(a, op, b) : a \in Lits, op \in BinOps, b \in Lits }
        \cup { BinExpr(a, op, b) : a \in Lits, op \in { "LOGICALAND", "LOGICALOR" },
                                   b \in { x \in Arithmetic : x.Left.Typ \in { "INT", "STR" } } }

\* NewInterpreter(inputName), and an expression tree to evaluate
InitEvaluate ==
    /\ mode = "Evaluate"
    /\ NoFrontEnd
    /\ NoPrompt
    /\ errorList = <<>>
    /\ expr \in Exprs
    /\ v = [ errors |-> <<>> ]
    /\ val = NoValue
    /\ w1 = NoValue /\ w2 = NoValue /\ cmp = <<>>

Evaluate ==
    /\ mode = "Evaluate"
    /\ val = NoValue
    /\ LET res == evaluate(expr, v.errors)
       IN  /\ v' = [ errors |-> res.errors ]
           /\ val' = IF res.panicked
                     THEN [ typ |-> "panic", err |-> Last(res.errors) ]
                     ELSE [ typ |-> "returned", value |-> res.value ]
    /\ UNCHANGED <<replVars, mode, frontVars, errorList, expr, w1, w2, cmp>>

\* one expression evaluated by a new Interpreter
SpecEvaluate == InitEvaluate /\ [][Evaluate]_vars

(***************************************************************************)
(* What the properties of the runtime speak of.                            *)
(***************************************************************************)
\* the zero values of the tour that the runtime has: 0, 0.0, '', false and null
IsZeroValue(x) == x \in { Nil, Bool(FALSE), Float64(0, 1), String(<<>>) }

\* the expression has been evaluated, and it is a binary (unary) one with this operator
EvaluatedBin(ops) ==
    mode = "Evaluate" /\ val # NoValue /\ expr.kind = "BinExpr" /\ expr.Op \in ops
EvaluatedUn(op) ==
    mode = "Evaluate" /\ val # NoValue /\ expr.kind = "UnExpr" /\ expr.Op = op

ReturnedValue(x) == [ typ |-> "returned", value |-> x ]
Raised(message) == [ typ |-> "panic", err |-> message ]

\* what evaluating n alone ends in
Outcome(n) ==
    LET res == evaluate(n, <<>>)
    IN  IF res.panicked THEN Raised(Last(res.errors)) ELSE ReturnedValue(res.value)

IsNumberLit(n) == n.kind = "BasicLit" /\ n.Typ \in { "INT", "FLOAT" }

(***************************************************************************)
(* C23.  `l && r` is l itself, and r is not evaluated, when l is a zero    *)
(* value, and is the value of r otherwise; `l || r` is l itself when l is  *)
(* not a zero value and the value of r otherwise.  So `false && r` is      *)
(* false and `true || r` is true even when r would raise an error.         *)
(***************************************************************************)
C23_ShortCircuit ==
    /\ EvaluatedBin({ "LOGICALAND" }) =>
           val = IF IsZeroValue(expr.Left.Value)
                 THEN ReturnedValue(expr.Left.Value) ELSE Outcome(expr.Right)
    /\ EvaluatedBin({ "LOGICALOR" }) =>
           val = IF ~ IsZeroValue(expr.Left.Value)
                 THEN ReturnedValue(expr.Left.Value) ELSE Outcome(expr.Right)

\* what the runtime does instead: both operands are evaluated, an error of either is
\* raised, and the result is null
C23_BothOperandsEvaluated ==
    EvaluatedBin({ "LOGICALAND", "LOGICALOR" }) =>
        val = IF Outcome(expr.Right).typ = "panic" THEN Outcome(expr.Right)
              ELSE ReturnedValue(Nil)

(***************************************************************************)
(* C24.  `/` and `%` with a right operand that is zero raise a             *)
(* zero-division error instead of computing: "int division by zero" when   *)
(* both operands are integers, "float division by zero" when one of them   *)
(* is a float.                                                             *)
(***************************************************************************)
C24_ZeroDivisionRaises ==
    ( /\ EvaluatedBin({ "DIV", "MOD" })
      /\ IsNumberLit(expr.Left) /\ IsNumberLit(expr.Right)
      /\ expr.Right.Value = Float64(0, 1) ) =>
        val = Raised(IF expr.Left.Typ = "INT" /\ expr.Right.Typ = "INT"
                     THEN "int division by zero" ELSE "float division by zero")

\* what the runtime does instead: `/` by zero is the float64 quotient, an infinity or
\* NaN, and `%` is null
C24_ZeroDivisionComputes ==
    ( /\ EvaluatedBin({ "DIV", "MOD" })
      /\ IsNumberLit(expr.Left) /\ IsNumberLit(expr.Right)
      /\ expr.Right.Value = Float64(0, 1) ) =>
        val = IF expr.Op = "MOD" THEN ReturnedValue(Nil)
              ELSE ReturnedValue(Float64(Sign(expr.Left.Value.num), 0))

(***************************************************************************)
(* C25.  For every runtime value x, `!x` evaluates without an error, to    *)
(* true when x is a zero value and to false when it is not.                *)
(***************************************************************************)
C25_NotIsTrueOfZeroValues ==
    EvaluatedUn("LOGICALNOT") =>
        val = ReturnedValue(Bool(IsZeroValue(expr.Operand.Value)))

\* the same for null and the booleans; of a number or a string `!x` is false
C25_NotIsTrueOfNullAndFalse ==
    EvaluatedUn("LOGICALNOT") =>
        val = ReturnedValue(Bool(expr.Operand.Value \in { Nil, Bool(FALSE) }))

(***************************************************************************)
(* C26.  Arithmetic on two numbers written as integers is integer          *)
(* arithmetic, division too: `7 / 2` is 3.  The result is a floating-point *)
(* fraction only when an operand is not an integer.                        *)
(***************************************************************************)
IntegerResult(a, op, b) ==
    CASE op = "PLUS" -> a + b
      [] op = "MINUS" -> a - b
      [] op = "MULT" -> a * b
      [] op = "DIV" -> a \div b

C26_IntegerArithmetic ==
    ( /\ EvaluatedBin({ "PLUS", "MINUS", "MULT", "DIV" })
      /\ expr.Left \in IntLits /\ expr.Right \in IntLits
      /\ ~ (expr.Op = "DIV" /\ expr.Right.Value.num = 0) ) =>
        val = ReturnedValue(Float64(IntegerResult(expr.Left.Value.num, expr.Op,
                                                  expr.Right.Value.num), 1))

\* the same without the division, which is the float64 quotient
C26_IntegerArithmeticButDivision ==
    ( /\ EvaluatedBin({ "PLUS", "MINUS", "MULT", "DIV" })
      /\ expr.Left \in IntLits /\ expr.Right \in IntLits
      /\ ~ (expr.Op = "DIV" /\ expr.Right.Value.num = 0) ) =>
        val = IF expr.Op = "DIV"
              THEN ReturnedValue(Float64(expr.Left.Value.num, expr.Right.Value.num))
              ELSE ReturnedValue(Float64(IntegerResult(expr.Left.Value.num, expr.Op,
                                                       expr.Right.Value.num), 1))

(***************************************************************************)
(* The value types (lang/wenttype.go).                                     *)
(***************************************************************************)
\* a WType value: WNull, a WBool, a WNum (whole numbers here), a WString (a sequence
\* of runes), a WList of values, or the empty Wmap
WValue(typ, b, num, s, elems) ==
    [ typ |-> typ, b |-> b, num |-> num, s |-> s, elems |-> elems ]
WNull == WValue("WNull", FALSE, 0, <<>>, <<>>)
WBool(b) == WValue("WBool", b, 0, <<>>, <<>>)
WNum(i) == WValue("WNum", FALSE, i, <<>>, <<>>)
WString(s) == WValue("WString", FALSE, 0, s, <<>>)
WList(elems) == WValue("WList", FALSE, 0, <<>>, elems)
Wmap == WValue("Wmap", FALSE, 0, <<>>, <<>>)

\* Go's < and <= on two strings of the runes of StringsInOrder
RECURSIVE GoStringLess(_, _, _)
GoStringLess(s, t, orEq) ==
    IF s = <<>> THEN (orEq \/ t # <<>>)
    ELSE IF t = <<>> THEN FALSE
    ELSE IF Head(s) # Head(t) THEN StringLess(Head(s), Head(t))
    ELSE GoStringLess(Tail(s), Tail(t), orEq)

\* w.Equals(w2)
RECURSIVE Equals(_, _)
Equals(w, v2) ==
    IF w.typ # v2.typ THEN FALSE
    ELSE CASE w.typ = "WNull" -> TRUE
           [] w.typ = "WNum" -> w.num = v2.num
           [] w.typ = "WString" -> w.s = v2.s
           [] w.typ = "WBool" -> w.b = v2.b
           [] w.typ = "WList" ->
                 /\ Len(w.elems) = Len(v2.elems)
                 /\ \A i \in DOMAIN w.elems : Equals(w.elems[i], v2.elems[i])
           [] w.typ = "Wmap" -> TRUE

\* opError(w1, w2, compString), and no error
opError(w, v2, compString) == <<compString, w.typ, v2.typ>>
NoOpError == <<>>

\* w.Sm(w2, orEq): the result and the error
RECURSIVE Sm(_, _, _)
Sm(w, v2, orEq) ==
    CASE w.typ = "WNum" /\ v2.typ = "WNum" ->
             [ res |-> IF orEq THEN w.num <= v2.num ELSE w.num < v2.num, err |-> NoOpError ]
      [] w.typ = "WString" /\ v2.typ = "WString" ->
             [ res |-> GoStringLess(w.s, v2.s, orEq), err |-> NoOpError ]
      [] w.typ = "WList" /\ v2.typ = "WList" ->
             LET minLen == IF Len(w.elems) < Len(v2.elems) THEN Len(w.elems) ELSE Len(v2.elems)
                 differ == { i \in 1..minLen : ~ Equals(w.elems[i], v2.elems[i]) }
                 first == CHOOSE i \in differ : \A j \in differ : i <= j
             IN  IF differ # {} THEN Sm(w.elems[first], v2.elems[first], orEq)
                 ELSE [ res |-> IF orEq THEN Len(w.elems) <= Len(v2.elems)
                                ELSE Len(w.elems) < Len(v2.elems),
                        err |-> NoOpError ]
      [] OTHER -> [ res |-> FALSE, err |-> opError(w, v2, IF orEq THEN "<=" ELSE "<") ]

\* Gr with the flag handed to Sm as it is
Gr_sameOrEq(w, v2, orEq) ==
    LET smRes == Sm(w, v2, orEq)
    IN  IF smRes.err # NoOpError
        THEN [ res |-> FALSE, err |-> opError(w, v2, IF orEq THEN ">=" ELSE ">") ]
        ELSE [ res |-> ~ smRes.res, err |-> NoOpError ]

\* w.Gr(w2, orEq): a >= b is !(a < b) and a > b is !(a <= b)
Gr(w, v2, orEq) ==
    LET smRes == Sm(w, v2, ~ orEq)
    IN  IF smRes.err # NoOpError
        THEN [ res |-> FALSE, err |-> opError(w, v2, IF orEq THEN ">=" ELSE ">") ]
        ELSE [ res |-> ~ smRes.res, err |-> NoOpError ]

\* the values compared
WValues ==
    { WNull, WBool(TRUE), Wmap, WNum(0), WNum(1), WString(<<>>), WString(<<"a">>),
      WString(<<"a", "m">>), WList(<<>>), WList(<<WNum(0)>>), WList(<<WNum(1)>>),
      WList(<<WNum(0), WNum(1)>>), WList(<<WString(<<"a">>)>>),
      WList(<<WList(<<WNum(0)>>)>>), WList(<<WList(<<WNum(1)>>)>>), WList(<<WNull>>) }

\* the comparisons of one value with the other: the method, the receiver (1 for w1, 2
\* for w2) and the flag orEq
Comparisons == { "Sm", "Gr" } \X { 1, 2 } \X BOOLEAN

Compared(c) ==
    LET w == IF c[2] = 1 THEN w1 ELSE w2
        v2 == IF c[2] = 1 THEN w2 ELSE w1
    IN  IF c[1] = "Sm" THEN Sm(w, v2, c[3]) ELSE Gr(w, v2, c[3])

\* w.Sm(w2, orEq) or w.Gr(w2, orEq), called on the two values one way round or the other
Compare ==
    /\ mode = "Compare"
    /\ \E c \in Comparisons :
           /\ c \notin DOMAIN cmp
           /\ cmp' = (c :> Compared(c)) @@ cmp
    /\ UNCHANGED <<replVars, mode, frontVars, errorList, expr, v, val, w1, w2>>

InitCompare ==
    /\ mode = "Compare"
    /\ NoFrontEnd
    /\ NoPrompt
    /\ errorList = <<>>
    /\ expr = NoValue /\ v = NoValue /\ val = NoValue
    /\ w1 \in WValues /\ w2 \in WValues
    /\ cmp = <<>>

\* two values compared with < <= > >= in both directions
SpecCompare == InitCompare /\ [][Compare]_vars

(***************************************************************************)
(* C27.  On two numbers, two strings or two lists, `a > b` is `b < a` and  *)
(* `a >= b` is `b <= a`; and on any two values `>` and `>=` report a type  *)
(* error exactly when `<` and `<=` on the same operands do.                *)
(***************************************************************************)
Ordered == { "WNum", "WString", "WList" }

DecimalLiteral == Input # <<>> /\ \A i \in DOMAIN Input : Input[i] = "1"

C28_IntegerLiteralConverted ==
    (mode = "Parse" /\ ppc = "returned" /\ DecimalLiteral) =>
        /\ ParsedTree
        /\ p.Root.kind = "Num"

\* what Parse does with it: the literal was scanned as one NUM token without a lexical
\* error, and Parse returns an error and no tree
C28_IntegerLiteralRejected ==
    (mode = "Parse" /\ ppc = "returned" /\ DecimalLiteral) =>
        /\ out # <<>> /\ out[1].Type = "NUM" /\ out[1].Value = Input
        /\ \A i \in DOMAIN out : out[i].Type # "ERROR"
        /\ ret.err # NilError
        /\ ret.parser = "nil"

(***************************************************************************)
(* C29.  In the channel lexer an ERROR token ends the scan: once an ERROR  *)
(* token has been sent, the goroutine sends no further token, and what is  *)
(* received after it is the zero Token of the closed channel.              *)
(***************************************************************************)
C29_ErrorTokenIsLast ==
    mode = "Next" =>
        \A i \in DOMAIN Toks :
            Toks[i].Type = "ERROR" =>
                \A j \in (i + 1)..Len(Toks) : Toks[j] = ZeroToken

\* the same on inputs without `|` and `&`
C29_ErrorTokenIsLastWithoutBar ==
    (mode = "Next" /\ \A k \in DOMAIN Input : Input[k] \notin { "|", "&" }) =>
        \A i \in DOMAIN Toks :
            Toks[i].Type = "ERROR" =>
                \A j \in (i + 1)..Len(Toks) : Toks[j] = ZeroToken

(***************************************************************************)
(* C30.  Whenever Parse has returned, with a tree or with a syntax error,  *)
(* the lexing goroutine has closed the token channel and exited: it is not *)
(* left blocked on a send.                                                 *)
(***************************************************************************)
C30_ClosedWhenParseReturns ==
    (mode = "Parse" /\ ppc = "returned") => (state = "closed" /\ sendq = <<>>)

\* C30, amended: when Parse returns an error the channel is closed; when it returns a
\* tree the goroutine has sent its last token and nothing is left for it but to close
\* the channel, which needs no receiver
C30_NotBlockedWhenParseReturns ==
    (mode = "Parse" /\ ppc = "returned") =>
        /\ sendq = <<>>
        /\ state \in { "nil", "closed" }
        /\ ret.err # NilError => state = "closed"

\* Parse has returned a tree while the goroutine has yet to close the channel
C30_Witness ==
    /\ mode = "Parse" /\ ppc = "returned"
    /\ ret.err = NilError /\ ret.parser = "p"
    /\ state = "nil" /\ sendq = <<>>

(***************************************************************************)
(* C31.  For every input Parse returns, with a tree or with an error: the  *)
(* parser does not wait for ever on Next and Drain does not go on for      *)
(* ever, also when the input has a quoted string that is never closed.     *)
(***************************************************************************)
\* as a property of finite runs: as long as Parse has not returned, the
\* goroutine that lexes or Parse itself has a step to take that changes the state:
\* Parse never waits for a token that the goroutine will never send
\* Parse, or Drain, is waiting to receive from the channel
Waiting == ppc \in { "parse", "recover" } /\ ~CanReceive

\* the goroutine is in the loop of lexQuotedString and a pass changes nothing
Looping == state = "spin" /\ tok_next(cl).l = cl

C31_ParseReturns == ~(Waiting /\ Looping)

\* the same for the inputs in which every quote is closed
EveryQuoteClosed == Cardinality({ i \in DOMAIN Input : Input[i] = "'" }) % 2 = 0

C31_ParseReturnsWhenQuotesClosed == EveryQuoteClosed => C31_ParseReturns

(***************************************************************************)
(* The cursor of the two lexers: runes are read with next, and a rune that *)
(* was read is given back with backup.                                     *)
(***************************************************************************)
\* both lexers at the beginning of one input, no rune read yet
InitCursor(pieces) ==
    /\ mode = "Cursor"
    /\ variant = "none"
    /\ InitInput(pieces)
    /\ l = New /\ pc = "ready"
    /\ out = <<>>
    /\ cl = Tokenise /\ state = "ready" /\ sendq = <<>>
    /\ p = NoParser /\ ppc = "none" /\ recovered = NilError /\ ret = NoResults
    /\ calls = <<>>
    /\ NoRuntime
    /\ NoPrompt

\* l.next() of the pull-based lexer, the rune is kept
Consume ==
    /\ mode = "Cursor"
    /\ l.pos < Len(Input)
    /\ l' = next(l).l
    /\ pc' = "next"
    /\ UNCHANGED <<replVars, runtimeVars, calls, mode, variant, Input, out, cl, state, sendq, p, ppc, recovered, ret>>

\* l.next() and then l.backup() of the pull-based lexer
NextThenBackup ==
    /\ mode = "Cursor"
    /\ l' = backup(next(l).l)
    /\ pc' = "backup"
    /\ UNCHANGED <<replVars, runtimeVars, calls, mode, variant, Input, out, cl, state, sendq, p, ppc, recovered, ret>>

\* l.next() of the lexer behind the channel, the rune is kept
tok_Consume ==
    /\ mode = "Cursor"
    /\ cl.pos < Len(Input)
    /\ cl' = tok_next(cl).l
    /\ state' = "next"
    /\ UNCHANGED <<replVars, runtimeVars, calls, mode, variant, Input, l, pc, out, sendq, p, ppc, recovered, ret>>

\* l.peek() of the lexer behind the channel: l.next() and then l.backup()
tok_NextThenBackup ==
    /\ mode = "Cursor"
    /\ cl' = tok_peek(cl).l
    /\ state' = "backup"
    /\ UNCHANGED <<replVars, runtimeVars, calls, mode, variant, Input, l, pc, out, sendq, p, ppc, recovered, ret>>

NextCursor == Consume \/ NextThenBackup \/ tok_Consume \/ tok_NextThenBackup

CursorPieces == { <<"x">>, <<"1">>, <<"\n">> }

\* the cursor of both lexers on inputs made of runes and newlines
SpecCursor == InitCursor(CursorPieces) /\ [][NextCursor]_vars

\* position, line and column
Cursor(lx) == <<lx.pos, lx.line, lx.col>>

(***************************************************************************)
(* C32.  In either lexer a next() that is followed at once by backup()     *)
(* leaves position, line and column as they were before the next(), for    *)
(* every rune, the newline included, and at the end of the input.          *)
(***************************************************************************)
C32_BackupRestoresCursor ==
    [][/\ NextThenBackup => Cursor(l') = Cursor(l)
       /\ tok_NextThenBackup => Cursor(cl') = Cursor(cl)]_vars

\* the same for the runes that are not a newline, and not for the end of input
C32_BackupRestoresCursorOfRune ==
    [][/\ NextThenBackup /\ peek(l) \notin { eof, "\n" } => Cursor(l') = Cursor(l)
       /\ tok_NextThenBackup /\ peek(cl) \notin { eof, "\n" } => Cursor(cl') = Cursor(cl)]_vars

\* position and line are restored for every rune and at the end of input
C32_BackupRestoresPositionAndLine ==
    [][/\ NextThenBackup => l'.pos = l.pos /\ l'.line = l.line
       /\ tok_NextThenBackup => cl'.pos = cl.pos /\ cl'.line = cl.line]_vars

(***************************************************************************)
(* C33.  The bracket stack holds exactly the openers read so far that no   *)
(* matching closer has closed: a closer reported as mismatched removes no  *)
(* opener, and for `(]` the `(` is reported as unclosed at end of input.   *)
(***************************************************************************)
\* the openers of s that no matching closer has closed, on top of openers
RECURSIVE Unclosed(_, _)
Unclosed(s, openers) ==
    IF s = <<>> THEN openers
    ELSE IF Head(s) \in { "(", "[", "{" } THEN Unclosed(Tail(s), push(openers, Head(s)))
    ELSE IF Head(s) \in { ")", "]", "}" }
    THEN IF openers # <<>> /\ top(openers) = bracketMap(Head(s))
         THEN Unclosed(Tail(s), pop(openers))
         ELSE Unclosed(Tail(s), openers)
    ELSE Unclosed(Tail(s), openers)

\* the openers of s when every closer removes the opener on top, matching or not
RECURSIVE Unpopped(_, _)
Unpopped(s, openers) ==
    IF s = <<>> THEN openers
    ELSE IF Head(s) \in { "(", "[", "{" } THEN Unpopped(Tail(s), push(openers, Head(s)))
    ELSE IF Head(s) \in { ")", "]", "}" }
    THEN Unpopped(Tail(s), IF openers # <<>> THEN pop(openers) ELSE openers)
    ELSE Unpopped(Tail(s), openers)

\* the input has brackets, names, semicolons and newlines only
OnlyBrackets == \A i \in DOMAIN Input : Input[i] \notin { "'", "|" }

\* the runes read by the calls of Scan that have returned, before EOF
RunesRead == SubSeq(Input, 1, l.pos)

C33_StackHoldsUnclosedOpeners ==
    (mode = "Scan" /\ pc = "ready" /\ OnlyBrackets) =>
        /\ Count(out, "EOF") = 0 => l.bracketStack = Unclosed(RunesRead, <<>>)
        /\ (Count(out, "EOF") > 0 /\ Unclosed(Input, <<>>) # <<>>) =>
               ErrorsSaying("unclosed left bracket") >= 1

\* what the stack does hold: the openers that no closer at all has removed
C33_StackHoldsUnpoppedOpeners ==
    (mode = "Scan" /\ pc = "ready" /\ OnlyBrackets) =>
        /\ Count(out, "EOF") = 0 => l.bracketStack = Unpopped(RunesRead, <<>>)
        /\ (Count(out, "EOF") > 0 /\ Unpopped(Input, <<>>) # <<>>) =>
               ErrorsSaying("unclosed left bracket") >= 1

(***************************************************************************)
(* Comments.  An input is lexed to its end, the comments are taken out of  *)
(* it, and what is left is lexed again by a new lexer of the same kind.    *)
(***************************************************************************)
\* the index of the first newline of s, Len(s) + 1 if it has none
FirstNewline(s) ==
    LET at == { i \in 1..Len(s) : s[i] = "\n" }
    IN  IF at = {} THEN Len(s) + 1 ELSE CHOOSE i \in at : \A j \in at : i <= j

\* the index of the `/` of the first `*/` of s that begins after the opener, 0 if none
CommentEnd(s) ==
    LET at == { i \in 4..Len(s) : s[i - 1] = "*" /\ s[i] = "/" }
    IN  IF at = {} THEN 0 ELSE CHOOSE i \in at : \A j \in at : i <= j

\* s without its comments: a line comment is deleted up to its newline, a block
\* comment that is closed becomes a space, one that is not closed stays
RECURSIVE Strip(_)
Strip(s) ==
    IF Len(s) < 2 THEN s
    ELSE IF s[1] = "/" /\ s[2] = "/"
    THEN Strip(SubSeq(s, FirstNewline(s), Len(s)))
    ELSE IF s[1] = "/" /\ s[2] = "*"
    THEN IF CommentEnd(s) = 0 THEN s
         ELSE <<" ">> \o Strip(SubSeq(s, CommentEnd(s) + 1, Len(s)))
    ELSE <<Head(s)>> \o Strip(Tail(s))

\* the lexer has produced every token of the input, and no call was made after that
LexedAll ==
    IF mode = "Scan" THEN pc = "ready" /\ Count(out, "EOF") = 1
    ELSE state = "closed" /\ sendq = <<>> /\ ExtraCalls(out) = 0

\* the tokens of the input are kept, and a new lexer is made for the input
\* without its comments
StripComments ==
    /\ mode \in { "Scan", "Next" }
    /\ calls = <<>>
    /\ LexedAll
    /\ Strip(Input) # Input
    /\ calls' = <<[ op |-> "lexed", input |-> Input, toks |-> out ]>>
    /\ Input' = Strip(Input)
    /\ out' = <<>>
    /\ IF mode = "Scan"
       THEN l' = New /\ pc' = "ready" /\ UNCHANGED <<cl, state>>
       ELSE cl' = Tokenise /\ state' = "lexCode" /\ UNCHANGED <<l, pc>>
    /\ UNCHANGED <<replVars, runtimeVars, mode, variant, sendq, p, ppc, recovered, ret>>

CommentPieces ==
    { <<"x">>, <<"c">>, <<" ">>, <<"\n">>, <<"/">>, <<"*">>, <<"/", "/">>, <<"/", "*">>,
      <<"*", "/">> }

NextComments == CallScan \/ run \/ close \/ CallNext \/ StripComments

\* both lexers on inputs with comments, and then on the same inputs without them
SpecComments ==
    (InitScan(CommentPieces) \/ InitNext(CommentPieces)) /\ [][NextComments]_vars

\* kind and text of each token
Texts(toks) == [ i \in 1..Len(toks) |-> <<toks[i].Type, toks[i].Value>> ]

(***************************************************************************)
(* C34.  Comments are ignored: when a `//` comment is deleted up to its    *)
(* newline, or a closed block comment replaced by a space, the lexer gives *)
(* tokens of the same kinds and texts; `x // c\n` lexes as `x\n` does.     *)
(***************************************************************************)
C34_CommentsIgnored ==
    (calls # <<>> /\ calls[1].op = "lexed" /\ LexedAll) => Texts(out) = Texts(calls[1].toks)

\* the input that was lexed first, with its comments
Commented == calls[1].input

\* the same for the inputs that have line comments only
C34_LineCommentsIgnored ==
    (calls # <<>> /\ calls[1].op = "lexed" /\ LexedAll
        /\ \A i \in DOMAIN Commented : Commented[i] # "*") =>
        Texts(out) = Texts(calls[1].toks)

\* no newline ends a line comment, and no block comment begins with `/*/`
NoNewlineAfterLineComment ==
    \A i \in 1..(Len(Commented) - 1) :
        (Commented[i] = "/" /\ Commented[i + 1] = "/") =>
            \A j \in i..Len(Commented) : Commented[j] # "\n"
NoSlashAfterOpener ==
    \A i \in 1..(Len(Commented) - 2) :
        ~(Commented[i] = "/" /\ Commented[i + 1] = "*" /\ Commented[i + 2] = "/")

\* the same for the inputs in which every `//` comment runs to the end of the input
\* and no `/*` is followed by `/`
C34_CommentsIgnoredAtEndOfInput ==
    (calls # <<>> /\ calls[1].op = "lexed" /\ LexedAll
        /\ NoNewlineAfterLineComment /\ NoSlashAfterOpener) =>
        Texts(out) = Texts(calls[1].toks)

(***************************************************************************)
(* C35.  A block comment ends only at a `*/` whose `*` comes after the     *)
(* opener `/*`: in an input that begins with `/*/` and has no `*/` after   *)
(* the opener, the comment is not closed, so nothing after the opener is   *)
(* lexed, and the lexer behind the channel reports the comment.            *)
(***************************************************************************)
BeginsWith(s) == Len(Input) >= Len(s) /\ SubSeq(Input, 1, Len(s)) = s

NothingLexed == \A i \in 1..Len(Toks) : Toks[i].Type \in { "EOF", "ERROR" }

C35_CommentEndsAfterOpener ==
    (mode \in { "Scan", "Next" } /\ BeginsWith(<<"/", "*", "/">>) /\ CommentEnd(Input) = 0) =>
        /\ NothingLexed
        /\ (mode = "Next" /\ state = "closed") =>
               ErrorsSaying("Multiline comment is not closed") = 1

\* the same when the `*` of the opener counts as the `*` of a closing `*/`
C35_CommentEndsAfterSlash ==
    (mode \in { "Scan", "Next" } /\ BeginsWith(<<"/", "*">>)
        /\ \A i \in 3..Len(Input) : ~(Input[i - 1] = "*" /\ Input[i] = "/")) =>
        /\ NothingLexed
        /\ (mode = "Next" /\ state = "closed") =>
               ErrorsSaying("Multiline comment is not closed") = 1

BooleanPieces ==
    { <<"t", "r", "u", "e">>, <<"f", "a", "l", "s", "e">>, <<"x">>, <<"\n">>, <<" ">>, <<"+">> }

NextBooleans == CallScan \/ run \/ close \/ CallNext

\* both lexers on inputs made of boolean literals, names and newlines
SpecBooleans ==
    (InitScan(BooleanPieces) \/ InitNext(BooleanPieces)) /\ [][NextBooleans]_vars

(***************************************************************************)
(* C36.  A run of newlines that comes directly after a boolean literal,    *)
(* `true` or `false`, produces a SEMICOLON token, as it does after a name, *)
(* a string or a number.                                                   *)
(***************************************************************************)
\* Scan is called where the next rune is a newline
DirectlyAtNewline == l.pos < Len(Input) /\ Input[l.pos + 1] = "\n"

\* the goroutine runs lexNewline
RunsLexNewline == mode = "Next" /\ state = "lexNewline" /\ cl' # cl

lox_ZeroToken == [ Type |-> "ILLEGAL", Value |-> <<>>, Pos |-> <<0, 0>> ]

\* New(name, input): no lookahead, no current token, no error
lox_New == [ tokeniser |-> New, tokens |-> <<>>, currentToken |-> lox_ZeroToken ]

lox_Built(ps, n) == [ p |-> ps, n |-> n, halted |-> FALSE ]
lox_Panicked(ps) == [ p |-> ps, n |-> NilNode, halted |-> TRUE ]

lox_errorf(ps, pos, msg) ==
    [ps EXCEPT !.tokeniser.errors = Append(@, [ Pos |-> pos, Msg |-> msg ])]

\* the token that Scan returned is pushed on the lookahead list
lox_pushed(ps, scanned) == [ps EXCEPT !.tokens = <<scanned.tok>>, !.tokeniser = scanned.l]

lox_peek(ps) == IF ps.tokens # <<>> THEN ps ELSE lox_pushed(ps, Scan(ps.tokeniser))

\* the first token of the lookahead list becomes the current token
lox_shifted(ps) == [ps EXCEPT !.currentToken = Head(ps.tokens), !.tokens = Tail(@)]

\* next: the token shifted from the lookahead list, or else the one Scan returns, which
\* is the one that peek would push
lox_next(ps) == lox_shifted(lox_peek(ps))

\* the token that peek returns
lox_peeked(ps) == Head(lox_peek(ps).tokens)

\* match, after the peek of its first check: next consumes the token if its type is
\* one of the types
lox_matched(ps, types) ==
    IF Head(ps.tokens).Type # "EOF" /\ Head(ps.tokens).Type \in types
    THEN [ p |-> lox_shifted(ps), ok |-> TRUE ]
    ELSE [ p |-> ps, ok |-> FALSE ]

lox_match(ps, types) == lox_matched(lox_peek(ps), types)

\* errorExpected, always called with the position of the token that peek returns,
\* after that peek
lox_expected(ps, message) ==
    lox_errorf(ps, Head(ps.tokens).Pos,
               <<"expected", message,
                 IF Head(ps.tokens).Type = "SEMICOLON" /\ Head(ps.tokens).Value = <<"\n">>
                 THEN "newline" ELSE Head(ps.tokens).Type>>)

lox_errorExpected(ps, message) == lox_expected(lox_peek(ps), message)

\* expect, after the peek of its check
lox_expecting(ps, typ) ==
    IF Head(ps.tokens).Type # "EOF" /\ Head(ps.tokens).Type = typ
    THEN [ p |-> lox_shifted(ps), ok |-> TRUE ]
    ELSE [ p |-> lox_shifted(lox_expected(ps, typ)), ok |-> FALSE ]

lox_expect(ps, typ) == lox_expecting(lox_peek(ps), typ)

\* the operators of equalityExpr, comparisonExpr, addExpr and multExpr
lox_Operators ==
    <<{ "EQ", "NEQ" }, { "SM", "SMEQ", "GR", "GREQ" }, { "PLUS", "MINUS" },
      { "MULT", "DIV", "MOD" }>>

RECURSIVE lox_binaryExpr(_, _), lox_binaryLoop(_, _), lox_arithUnExpr(_), lox_primaryExpr(_)

\* the right operand r has been parsed: the BinExpr, unless it panicked
lox_joined(left, op, r) ==
    IF r.halted THEN r ELSE lox_Built(r.p, BinExpr(left, op.Type, r.n))

\* the rule of level k: its operand is the rule of the next level, arithUnExpr at the last
lox_operand(ps, k) ==
    IF k = Len(lox_Operators) THEN lox_arithUnExpr(ps) ELSE lox_binaryExpr(ps, k + 1)

\* the loop `for p.match(...)`, m being what match gave
lox_operators(res, m, k) ==
    IF ~ m.ok THEN lox_Built(m.p, res.n)
    ELSE lox_binaryLoop(lox_joined(res.n, m.p.currentToken, lox_operand(m.p, k)), k)

lox_binaryLoop(res, k) ==
    IF res.halted THEN res ELSE lox_operators(res, lox_match(res.p, lox_Operators[k]), k)

lox_binaryExpr(ps, k) == lox_binaryLoop(lox_operand(ps, k), k)

lox_expression(ps) == lox_binaryExpr(ps, 1)

lox_unary(op, r) == IF r.halted THEN r ELSE lox_Built(r.p, UnExpr(op.Type, r.n))

lox_arithUnary(ps, m) ==
    IF m.ok THEN lox_unary(m.p.currentToken, lox_arithUnExpr(m.p)) ELSE lox_primaryExpr(m.p)

lox_arithUnExpr(ps) == lox_arithUnary(ps, lox_match(ps, { "PLUS", "MINUS" }))

\* the case of `(`: the expression has been parsed, e is what expect gave
lox_closing(r, e) ==
    IF e.ok THEN lox_Built(e.p, GrpExpr(r.n)) ELSE lox_Panicked(e.p)

lox_group(r) == IF r.halted THEN r ELSE lox_closing(r, lox_expect(r.p, "RROUND"))

\* primaryExpr after the peek of its first match, tok being the token peeked at
lox_primary(ps, tok) ==
    CASE tok.Type \in { "FALSE", "TRUE", "NULL" } ->
           lox_Built(lox_shifted(ps), BasicLit(tok.Type, tok.Type))
      [] tok.Type \in { "INT", "FLOAT", "STR" } ->
           lox_Built(lox_shifted(ps), BasicLit(tok.Type, tok.Value))
      [] tok.Type = "LROUND" -> lox_group(lox_expression(lox_shifted(ps)))
      [] OTHER -> lox_Panicked(lox_expected(ps, "expression"))

lox_peekedAt(ps) == lox_primary(ps, Head(ps.tokens))

lox_primaryExpr(ps) == lox_peekedAt(lox_peek(ps))

\* a Parser made by New for one of the inputs, Run not yet called
InitRun(pieces) ==
    /\ mode = "Run"
    /\ variant \in { "HEAD", "lox-impl-temp" }
    /\ InitInput(pieces)
    /\ l = New /\ pc = "none" /\ out = <<>>
    /\ cl = NoLexer /\ state = "none" /\ sendq = <<>>
    /\ p = lox_New /\ ppc = "Run" /\ recovered = NilError
    /\ ret = [ expr |-> NilNode, err |-> <<>> ]
    /\ calls = <<>>
    /\ NoRuntime
    /\ NoPrompt

\* what Run returns: the expression and a nil error, or after a panic no expression
\* and p.errors, the value that was thrown
lox_Returned(res) ==
    /\ p' = res.p
    /\ l' = res.p.tokeniser
    /\ ret' = IF res.halted
              THEN [ expr |-> NilNode, err |-> res.p.tokeniser.errors ]
              ELSE [ expr |-> res.n, err |-> <<>> ]

\* p.Run()
Run ==
    /\ mode = "Run"
    /\ ppc = "Run"
    /\ lox_Returned(lox_expression(p))
    /\ ppc' = "returned"
    /\ UNCHANGED <<replVars, runtimeVars, calls, mode, variant, Input, pc, out, cl, state, sendq, recovered>>

RunPieces ==
    { <<"1">>, <<"2">>, <<"+">>, <<"*">>, <<"(">>, <<")">>, <<" ">>, <<"|">>, <<";">>,
      <<"\n">>, <<"=", "=">>, <<"t", "r", "u", "e">> }

\* Run on inputs made of the pieces of expressions
SpecRun == InitRun(RunPieces) /\ [][Run]_vars

(***************************************************************************)
(* C37.  Run returns an error that is not nil whenever a lexical or syntax *)
(* error was recorded: when the error is nil, p.errors is empty.           *)
(***************************************************************************)
\* the errors recorded in p.errors
lox_errors == p.tokeniser.errors

C37_NilErrorNoErrors ==
    (mode = "Run" /\ ppc = "returned" /\ ret.err = <<>>) => lox_errors = <<>>

\* what holds: an error that is not nil is p.errors, with at least one error in it
C37_ErrorIsErrorList ==
    (mode = "Run" /\ ppc = "returned" /\ ret.err # <<>>) => ret.err = lox_errors

\* what holds as well: with a nil error no syntax error is among the errors recorded
C37_NilErrorNoSyntaxErrors ==
    (mode = "Run" /\ ppc = "returned" /\ ret.err = <<>>) =>
        \A i \in 1..Len(lox_errors) : lox_errors[i].Msg[1] # "expected"

(***************************************************************************)
(* C38.  A parse that succeeds has consumed the whole token stream: after  *)
(* the expression comes at most one SEMICOLON and then EOF, so that `1 2`  *)
(* is rejected with an error.                                              *)
(***************************************************************************)
\* the token after the one that peek returns
lox_second(ps) == lox_peeked(lox_next(ps))

\* Run has returned an expression and a nil error
RunSucceeded == mode = "Run" /\ ppc = "returned" /\ ret.err = <<>>

C38_WholeInputConsumed ==
    RunSucceeded =>
        \/ lox_peeked(p).Type = "EOF"
        \/ lox_peeked(p).Type = "SEMICOLON" /\ lox_second(p).Type = "EOF"

\* the same for Parse of lang/parser.go: the last token received is the one EOF, and
\* no SEMICOLON was received but for one just before it
C38_ParseConsumesWholeInput ==
    ParsedTree =>
        /\ Last(out).Type = "EOF"
        /\ \A i \in 1..(Len(out) - 2) : out[i].Type \notin { "SEMICOLON", "EOF" }

(***************************************************************************)
(* The REPL (cmd): each line entered goes to the executor, which collects  *)
(* the lines of one query for as long as a bracket is open.                *)
(***************************************************************************)
\* a line has at most MaxLine runes, the query at most MaxQuery, and runOnce is
\* called at most MaxRuns times
MaxLine == 2
MaxQuery == 5
MaxRuns == 2

brackets == [ r \in { "(", "{", "[" } |-> CASE r = "(" -> ")" [] r = "{" -> "}" [] r = "[" -> "]" ]

multiprefix == <<".", ".", ".", ".", ".", " ">>

\* collectBrackets: the stack it leaves and the status it returns
RECURSIVE collectBrackets(_, _)
collectBrackets(s, in) ==
    IF in = <<>> THEN [ s |-> s, status |-> IF s = <<>> THEN "normal" ELSE "open" ]
    ELSE IF Head(in) \in { "(", "[", "{" } THEN collectBrackets(push(s, Head(in)), Tail(in))
    ELSE IF Head(in) \in { ")", "]", "}" }
    THEN IF s = <<>> THEN [ s |-> s, status |-> "errbrack" ]
         ELSE IF brackets[top(s)] # Head(in) THEN [ s |-> pop(s), status |-> "errbrack" ]
         ELSE collectBrackets(pop(s), Tail(in))
    ELSE collectBrackets(s, Tail(in))

\* runOnce(query, in, interpreter): the prefix is reset and the query is run
runOnce(ps, q, in) ==
    /\ promptState' = [ps EXCEPT !.LivePrefixIsEnabled = FALSE, !.LivePrefix = in]
    /\ ran' = [ count |-> ran.count + 1, query |-> q, in |-> in ]

LineRunes == { "(", ")", "]", "{", "x" }
Lines == UNION { [1..n -> LineRunes] : n \in 0..MaxLine }

InitREPL ==
    /\ mode = "REPL"
    /\ NoFrontEnd
    /\ NoRuntime
    /\ NoPrompt

\* the executor with errbrack handled as open is: the stack is kept
interpretExecutor_keepBrackets ==
    /\ mode = "REPL"
    /\ ran.count < MaxRuns
    /\ \E in \in Lines :
        /\ Len(query) + Len(in) + 1 <= MaxQuery
        /\ LET res == collectBrackets(promptState.brackets, in)
           IN  /\ entered' = [ in |-> in, status |-> res.status ]
               /\ IF res.status = "open"
                  THEN /\ promptState' = [ LivePrefix |-> multiprefix, LivePrefixIsEnabled |-> TRUE,
                                           brackets |-> res.s ]
                       /\ query' = query \o in \o <<"\n">>
                       /\ ran' = ran
                  ELSE /\ runOnce([promptState EXCEPT !.brackets = res.s],
                                  query \o in \o <<"\n">>, in)
                       /\ query' = <<>>
    /\ UNCHANGED <<runtimeVars, mode, frontVars>>

\* the func(string) that interpretExecutor returns, called with a line
interpretExecutor ==
    /\ mode = "REPL"
    /\ ran.count < MaxRuns
    /\ \E in \in Lines :
        /\ Len(query) + Len(in) + 1 <= MaxQuery
        /\ LET res == collectBrackets(promptState.brackets, in)
           IN  /\ entered' = [ in |-> in, status |-> res.status ]
               /\ IF res.status = "open"
                  THEN /\ promptState' = [ LivePrefix |-> multiprefix, LivePrefixIsEnabled |-> TRUE,
                                           brackets |-> res.s ]
                       /\ query' = query \o in \o <<"\n">>
                       /\ ran' = ran
                  ELSE /\ runOnce([promptState EXCEPT !.brackets =
                                      IF res.status = "errbrack" THEN <<>> ELSE res.s],
                                  query \o in \o <<"\n">>, in)
                       /\ query' = <<>>
    /\ UNCHANGED <<runtimeVars, mode, frontVars>>

\* the REPL, line after line
SpecREPL == InitREPL /\ [][interpretExecutor]_vars

(***************************************************************************)
(* C39.  After the REPL has executed a query, the status of the line being *)
(* normal or errbrack, the bracket stack and the query collected are both  *)
(* empty; while the status is open the line is only added to the query and *)
(* nothing is executed.                                                    *)
(***************************************************************************)
C39_NothingLeftAfterRun ==
    [][ /\ entered'.status \in { "normal", "errbrack" } =>
              /\ promptState'.brackets = <<>>
              /\ query' = <<>>
              /\ ran'.count = ran.count + 1
              /\ ran'.query = query \o entered'.in \o <<"\n">>
        /\ entered'.status = "open" =>
              /\ query' = query \o entered'.in \o <<"\n">>
              /\ ran' = ran
      ]_vars

\* a line with a mismatched closer while brackets were open: the query was run, and
\* nothing is left of the brackets or of the lines
C39_Witness ==
    /\ mode = "REPL"
    /\ entered.status = "errbrack"
    /\ ran.count >= 1
    /\ Len(ran.query) > Len(ran.in) + 1
    /\ promptState.brackets = <<>>
    /\ query = <<>>

====
